---- MODULE Spec2Model ----
(***************************************************************************)
(* Adaptive Entropy-Guided Uniform Diffusion (experiments/aegud).          *)
(*                                                                         *)
(* The tensor formulas of entropy_estimator.py, adaptive_uniform_graph.py  *)
(* and enhanced_adaptive_uniform_graph*.py are modelled over exact         *)
(* rationals <<numerator, denominator>>.  exp() is replaced by the         *)
(* rational function Exp below, which keeps what the formulas rely on:     *)
(* Exp(0) = 1, Exp(x) > 0, Exp strictly increasing, Exp(-x) = 1/Exp(x).    *)
(* Neural sub-networks ending in a sigmoid (the entropy head, the token    *)
(* decay net, the schedule net) are inputs ranging over (0,1).             *)
(***************************************************************************)
EXTENDS Integers, Sequences, FiniteSets, TLC

(***************************************************************************)
(* Bounds of the model.                                                    *)
(***************************************************************************)
Dim == 3
SeqLen == 2
MaxParam == 1
MaxTraj == 2
MaxExperiments == 3

Tokens == 0 .. (Dim - 1)
\* the positions of a batch x_t of shape (batch_size, seq_len), batch_size = 1
Positions == {1} \X (1 .. SeqLen)

(***************************************************************************)
(* Exact rational arithmetic.                                              *)
(***************************************************************************)
Abs(n) == IF n < 0 THEN -n ELSE n

RECURSIVE GCD(_, _)
GCD(a, b) == IF b = 0 THEN a ELSE GCD(b, a % b)

Rat(n, d) ==
  LET s == IF d < 0 THEN -1 ELSE 1
      g == GCD(Abs(n), Abs(d))
  IN  <<(s * n) \div g, (s * d) \div g>>

Zero == <<0, 1>>
One == <<1, 1>>
RInt(n) == <<n, 1>>
\* sums, products and comparisons reduce by common factors before they
\* multiply, so that intermediate values stay small
RAdd(a, b) ==
  LET g == GCD(a[2], b[2])
  IN  Rat(a[1] * (b[2] \div g) + b[1] * (a[2] \div g), (a[2] \div g) * b[2])
RNeg(a) == <<-a[1], a[2]>>
RSub(a, b) == RAdd(a, RNeg(b))
RMul(a, b) ==
  LET g1 == GCD(Abs(a[1]), b[2])
      g2 == GCD(Abs(b[1]), a[2])
  IN  <<(a[1] \div g1) * (b[1] \div g2), (a[2] \div g2) * (b[2] \div g1)>>
RInv(a) == IF a[1] < 0 THEN <<-a[2], -a[1]>> ELSE <<a[2], a[1]>>
RDiv(a, b) == RMul(a, RInv(b))
RLt(a, b) ==
  LET g == GCD(a[2], b[2])
  IN  a[1] * (b[2] \div g) < b[1] * (a[2] \div g)
RLe(a, b) == ~RLt(b, a)
RAbs(a) == <<Abs(a[1]), a[2]>>

RECURSIVE RSumSeq(_)
RSumSeq(s) == IF s = <<>> THEN Zero ELSE RAdd(Head(s), RSumSeq(Tail(s)))

RECURSIVE SetToSeq(_)
SetToSeq(S) ==
  IF S = {} THEN <<>>
  ELSE LET x == CHOOSE y \in S : TRUE IN <<x>> \o SetToSeq(S \ {x})

\* sum of f[x] over the domain of f
RSum(f) == RSumSeq([i \in 1 .. Cardinality(DOMAIN f) |-> f[SetToSeq(DOMAIN f)[i]]])
RMean(f) == RDiv(RSum(f), RInt(Cardinality(DOMAIN f)))

\* exp(x): 1 + x for x >= 0 and 1 / (1 - x) for x < 0
Exp(x) == IF x[1] >= 0 THEN RAdd(One, x) ELSE RDiv(One, RSub(One, x))
Sigmoid(x) == RDiv(Exp(x), RAdd(One, Exp(x)))

\* f as an explicit function: TLC evaluates a function expression again at
\* every application unless it is made explicit first
Fcn(f) == f @@ <<>>

RowSum(row) == RSum(row)
OffDiagonalSum(row, i) == RSum([j \in (DOMAIN row) \ {i} |-> row[j]])

VARIABLES
  tm,        \* AdaptiveTransitionMatrix parameters: token_embeddings, temperature, self_transition_bias
  trans,     \* the matrix last returned by forward / get_sparse_transitions, and the call that made it
  graph,     \* the graph object: its class, constructor flags and learnable parameters
  call,      \* the graph call in progress: its arguments and what it returns
  diag,      \* the convergence diagnostic in progress: the metrics appended so far and its verdict
  batch,     \* the batch runner in progress: its position in the experiment list and all_results
  trainer,   \* a trainer object: its counters, its configuration and the checkpoint files written
  obj,       \* an enhanced graph object with the attributes its methods set, and the call in progress
  pool,      \* the process pool of the parallel runner: its tasks, their results and the summary
  hier       \* a HierarchicalDiffusion object and its validate_hierarchical_convergence call

transVars == <<tm, trans>>
graphVars == <<graph, call>>
diagVars == <<diag>>
batchVars == <<batch>>
lateVars == <<trainer, obj, pool, hier>>
vars == <<tm, trans, graph, call, diag, batch, trainer, obj, pool, hier>>

(***************************************************************************)
(* entropy_estimator.py                                                    *)
(***************************************************************************)
\* EntropyEstimator.forward ends in nn.Sigmoid: one score in (0,1) per position
ScoreSet == {Rat(1, 4), Rat(3, 4)}
EntropyScores == [Positions -> ScoreSet]

\* AdaptiveTransitionMatrix.__init__ (hidden_dim = 1: one embedding coordinate
\* per token; the similarity depends on products of coordinates only, so the
\* sign of token 0 is fixed)
EmbeddingSet == {e \in [Tokens -> {-1, 1}] : e[0] = 1}
AdaptiveTransitionMatrix_init(emb) ==
  [token_embeddings |-> emb, temperature |-> One, self_transition_bias |-> Zero]

softmax(logits) ==
  LET e == Fcn([j \in DOMAIN logits |-> Exp(logits[j])])
      z == RSum(e)
  IN  Fcn([j \in DOMAIN logits |-> RDiv(e[j], z)])

\* AdaptiveTransitionMatrix.forward; entropy_scores = <<>> stands for None
forward(m, entropy_scores) ==
  LET similarity == [i \in Tokens |-> [j \in Tokens |->
          RAdd(RInt(m.token_embeddings[i] * m.token_embeddings[j]),
               IF i = j THEN m.self_transition_bias ELSE Zero)]]
      temp == IF entropy_scores # <<>>
              THEN RMul(m.temperature, RAdd(One, RMean(entropy_scores)))
              ELSE m.temperature
  IN  Fcn([i \in Tokens |-> softmax([j \in Tokens |-> RDiv(similarity[i][j], temp)])])

\* torch.topk on one row: the k largest entries; equal entries are taken in
\* the order given by lowFirst (the order of ties is not specified by torch)
topk(row, k, lowFirst) ==
  LET before(j, i) == \/ RLt(row[i], row[j])
                      \/ row[j] = row[i] /\ (IF lowFirst THEN j < i ELSE j > i)
  IN  {i \in DOMAIN row : Cardinality({j \in DOMAIN row : before(j, i)}) < k}

\* get_sparse_transitions without the final renormalisation
get_sparse_transitions_unnormalised(m, k, lowFirst) ==
  LET transition_matrix == forward(m, <<>>)
  IN  Fcn([i \in Tokens |->
        LET topk_idx == topk(transition_matrix[i], k, lowFirst)
        IN  Fcn([j \in Tokens |-> IF j \in topk_idx THEN transition_matrix[i][j] ELSE Zero])])

\* AdaptiveTransitionMatrix.get_sparse_transitions
get_sparse_transitions(m, k, lowFirst) ==
  LET transition_matrix == forward(m, <<>>)
      sparse == Fcn([i \in Tokens |->
                  LET topk_idx == topk(transition_matrix[i], k, lowFirst)
                  IN  [j \in Tokens |-> IF j \in topk_idx THEN transition_matrix[i][j] ELSE Zero]])
  IN  Fcn([i \in Tokens |-> LET z == RowSum(sparse[i])
                         IN  Fcn([j \in Tokens |-> RDiv(sparse[i][j], z)])])

ParamValues == {RInt(n) : n \in (-MaxParam) .. MaxParam}

(***************************************************************************)
(* adaptive_uniform_graph.py                                               *)
(***************************************************************************)
entropy_scale == 1
NumLevels == 2
None == 0

\* the diagonal of every position's matrix replaced by minus the sum of the
\* other entries of its row, the diagonal entry itself being added too
diagonal_from_full_row(rate_matrix) ==
  Fcn([p \in DOMAIN rate_matrix |-> Fcn([i \in Tokens |->
        LET row_sum == RowSum(rate_matrix[p][i])
        IN  Fcn([j \in Tokens |-> IF i = j THEN RNeg(row_sum) ELSE rate_matrix[p][i][j]])])])

\* masked_fill(mask, 0) - off_diagonal_sum * mask: the diagonal of every
\* position's matrix becomes minus the sum of the off-diagonal entries
diagonal_from_off_diagonal(rate_matrix) ==
  Fcn([p \in DOMAIN rate_matrix |-> Fcn([i \in Tokens |->
        LET off_diagonal_sum == OffDiagonalSum(rate_matrix[p][i], i)
        IN  Fcn([j \in Tokens |-> IF i = j THEN RNeg(off_diagonal_sum) ELSE rate_matrix[p][i][j]])])])

\* the rate matrix of AdaptiveUniform.adaptive_rate from the entropy scores
base_rate_matrix(g, m, entropy_scores, lowFirst) ==
  LET trans_matrix == IF g.sparsity_k # None
                      THEN get_sparse_transitions(m, g.sparsity_k, lowFirst)
                      ELSE forward(m, entropy_scores)
      entropy_factor == Fcn([p \in Positions |->
                          RAdd(One, RMul(RInt(entropy_scale), entropy_scores[p]))])
      rate_matrix == Fcn([p \in Positions |-> Fcn([i \in Tokens |-> Fcn([j \in Tokens |->
                       RMul(RMul(trans_matrix[i][j], g.rate_scale), entropy_factor[p])])])])
  IN  diagonal_from_off_diagonal(rate_matrix)

\* AdaptiveUniform.adaptive_rate
AdaptiveUniform_adaptive_rate(g, m, entropy_scores, lowFirst) ==
  base_rate_matrix(g, m, entropy_scores, lowFirst)

\* HierarchicalAdaptiveUniform.hierarchical_entropy: softmax(level_weights)
\* over the level estimators' scores (level_weights at their initial, equal values)
hierarchical_entropy(level_scores) ==
  LET weights == softmax([l \in 1 .. NumLevels |-> Rat(1, NumLevels)])
  IN  Fcn([p \in Positions |-> RSum([l \in 1 .. NumLevels |-> RMul(level_scores[l][p], weights[l])])])

\* HierarchicalAdaptiveUniform.adaptive_rate
HierarchicalAdaptiveUniform_adaptive_rate(g, m, level_scores, lowFirst) ==
  base_rate_matrix(g, m, hierarchical_entropy(level_scores), lowFirst)

(***************************************************************************)
(* enhanced_adaptive_uniform_graph.py, enhanced_adaptive_uniform_graph_v2.py *)
(***************************************************************************)
stage_transition_point == Rat(4, 5)
decay_tau == Rat(1, 10)
transition_smoothness == Rat(1, 10)

\* a time argument: its value and whether it is a tensor or a Python number
Time(v, is_tensor) == [v |-> v, is_tensor |-> is_tensor]

\* normalized_t = t / max_t if isinstance(t, (int, float)) else t
normalized_time(t, max_t) == IF t.is_tensor THEN t.v ELSE RDiv(t.v, max_t)

\* the factor of each policy at normalized time n; a disabled policy gives 1
two_stage_factor(g, n) ==
  IF g.use_two_stage /\ ~RLt(n, stage_transition_point) THEN Zero ELSE One
asymptotic_factor(g, n) ==
  IF g.use_asymptotic_guarantee THEN RSub(One, RMul(n, n)) ELSE One
decay_factor(g, n) ==
  IF g.use_controlled_decay THEN Exp(RNeg(RDiv(n, decay_tau))) ELSE One
policy_product(g, n) ==
  RMul(two_stage_factor(g, n), RMul(asymptotic_factor(g, n), decay_factor(g, n)))

\* get_adaptive_weight as the product of the factors of the enabled policies
get_adaptive_weight_product(g, t, max_t) ==
  policy_product(g, normalized_time(t, max_t))

\* EnhancedAdaptiveUniform.get_adaptive_weight (the same statements make up
\* the fixed schedule of EnhancedAdaptiveUniformV2.get_adaptive_weight)
get_adaptive_weight(g, t, max_t) ==
  IF ~g.use_asymptotic_guarantee /\ ~g.use_controlled_decay THEN One
  ELSE LET normalized_t == normalized_time(t, max_t)
       IN  IF g.use_two_stage
           THEN IF RLt(normalized_t, stage_transition_point)
                THEN IF g.use_controlled_decay
                     THEN Exp(RNeg(RDiv(normalized_t, RMul(decay_tau, stage_transition_point))))
                     ELSE One
                ELSE Zero
           ELSE IF g.use_asymptotic_guarantee
           THEN LET uniform_weight == RMul(normalized_t, normalized_t)
                    adaptive_weight == RSub(One, uniform_weight)
                IN  IF g.use_controlled_decay
                    THEN RMul(adaptive_weight, Exp(RNeg(RDiv(normalized_t, decay_tau))))
                    ELSE adaptive_weight
           ELSE IF g.use_controlled_decay
           THEN Exp(RNeg(RDiv(normalized_t, decay_tau)))
           ELSE One

\* LearnableConvergenceSchedule.forward; schedule_value is the output of
\* schedule_net, which ends in nn.Sigmoid
LearnableConvergenceSchedule_forward(g, t, max_t, schedule_value) ==
  LET normalized_t == normalized_time(t, max_t)
      transition_factor == Sigmoid(RDiv(RSub(g.transition_point, normalized_t), transition_smoothness))
  IN  RMul(schedule_value, transition_factor)

\* EnhancedAdaptiveUniformV2.get_adaptive_weight
V2_get_adaptive_weight(g, t, max_t, schedule_value) ==
  IF g.use_learnable_schedule
  THEN LearnableConvergenceSchedule_forward(g, t, max_t, schedule_value)
  ELSE get_adaptive_weight(g, t, max_t)

\* VocabularyAwareDecay.forward; combined_modulation is decay_modulation (a
\* sigmoid output) times log1p(frequencies * vocab_size), per position
VocabularyAwareDecay_forward(combined_modulation, t, base_decay_rate) ==
  Fcn([p \in Positions |->
        Exp(RNeg(RDiv(t.v, RMul(base_decay_rate, RAdd(One, combined_modulation[p])))))])

\* the pure uniform generator of the adaptive_weight == 0.0 branch
uniform_rate_matrix ==
  diagonal_from_off_diagonal(
    Fcn([p \in Positions |-> Fcn([i \in Tokens |-> Fcn([j \in Tokens |->
          IF i = j THEN Zero ELSE Rat(1, Dim)])])]))

\* adaptive_weight * rate_matrix + (1 - adaptive_weight) * uniform_rate
blend(adaptive_weight, rate_matrix) ==
  LET uniform_rate == uniform_rate_matrix
      uniform_weight == RSub(One, adaptive_weight)
  IN  Fcn([p \in Positions |-> Fcn([i \in Tokens |-> Fcn([j \in Tokens |->
        RAdd(RMul(adaptive_weight, rate_matrix[p][i][j]),
             RMul(uniform_weight, uniform_rate[p][i][j]))])])])

\* the rate of the base class, whatever the adaptive weight is
unweighted_rate(g, m, adaptive_weight, entropy_scores, lowFirst) ==
  base_rate_matrix(g, m, entropy_scores, lowFirst)

\* the statements after the adaptive weight is known, shared by
\* EnhancedAdaptiveUniform.adaptive_rate and EnhancedAdaptiveUniformV2.adaptive_rate
weighted_rate(g, m, adaptive_weight, entropy_scores, lowFirst) ==
  IF adaptive_weight = Zero THEN uniform_rate_matrix
  ELSE LET rate_matrix == base_rate_matrix(g, m, entropy_scores, lowFirst)
       IN  IF RLt(adaptive_weight, One) THEN blend(adaptive_weight, rate_matrix)
           ELSE rate_matrix

\* the adaptive weight EnhancedAdaptiveUniform.adaptive_rate blends with
EnhancedAdaptiveUniform_weight(g, t, max_t) == get_adaptive_weight(g, t, max_t)

\* the adaptive weight EnhancedAdaptiveUniformV2.adaptive_rate blends with,
\* after the vocabulary-aware modulation
EnhancedAdaptiveUniformV2_weight(g, t, max_t, schedule_value, combined_modulation) ==
  LET adaptive_weight == V2_get_adaptive_weight(g, t, max_t, schedule_value)
  IN  IF g.use_vocabulary_aware_decay /\ RLt(Zero, adaptive_weight)
      THEN RMul(adaptive_weight, RMean(VocabularyAwareDecay_forward(combined_modulation, t, decay_tau)))
      ELSE adaptive_weight


NoResult == [op |-> "none", k |-> 0, m |-> <<>>]
NoCall == [op |-> "none"]

\* the constructors: AdaptiveUniform.__init__, HierarchicalAdaptiveUniform.__init__,
\* EnhancedAdaptiveUniform.__init__ and EnhancedAdaptiveUniformV2.__init__
\* (rate_scale = torch.ones(1); transition_point = 0.8 in the learnable schedule)
SparsityChoices == {None, Dim - 1}
GraphConfigs ==
  LET mk(cls, k, a, s, c, v, l) ==
        [cls |-> cls, sparsity_k |-> k, rate_scale |-> One,
         use_asymptotic_guarantee |-> a, use_two_stage |-> s, use_controlled_decay |-> c,
         use_vocabulary_aware_decay |-> v, use_learnable_schedule |-> l,
         transition_point |-> Rat(4, 5)]
  IN  {mk(cls, k, FALSE, FALSE, FALSE, FALSE, FALSE) :
         cls \in {"AdaptiveUniform", "HierarchicalAdaptiveUniform"}, k \in SparsityChoices}
      \cup {mk("EnhancedAdaptiveUniform", f[1], f[2], f[3], f[4], FALSE, FALSE) :
              f \in SparsityChoices \X BOOLEAN \X BOOLEAN \X BOOLEAN}
      \cup {mk("EnhancedAdaptiveUniformV2", f[1], f[2], f[3], f[4], f[5], FALSE) :
              f \in SparsityChoices \X BOOLEAN \X BOOLEAN \X BOOLEAN \X BOOLEAN}
      \* with the learnable schedule the three flags are never read: they keep their defaults
      \cup {mk("EnhancedAdaptiveUniformV2", f[1], TRUE, TRUE, TRUE, f[2], TRUE) :
              f \in SparsityChoices \X BOOLEAN}

\* token embeddings of the graph's transition matrix
GraphEmbeddings == {[i \in Tokens |-> IF i % 2 = 0 THEN 1 ELSE -1]}

\* the order of ties matters to torch.topk only
TieOrders(g) == IF g.sparsity_k # None THEN BOOLEAN ELSE {TRUE}

\* times t = fraction * max_t, given as a Python number or as a tensor
TimeFractions == {Zero, Rat(1, 2), Rat(4, 5), One}
MaxTimes == {One, RInt(2)}
Times(max_t) == {Time(RMul(f, max_t), b) : f \in TimeFractions, b \in BOOLEAN}
\* adaptive_rate gets the tensor t of the training step (score_entropy_with_kl)
RateTimes(max_t) == {t \in Times(max_t) : t.is_tensor}

\* outputs of the sigmoid-ended sub-networks
ScheduleValues == {Rat(1, 2)}
Modulations == [Positions -> {Rat(1, 2)}]

Enhanced == {"EnhancedAdaptiveUniform", "EnhancedAdaptiveUniformV2"}


GraphIdle ==
  /\ graph = CHOOSE g \in GraphConfigs : g.cls = "AdaptiveUniform" /\ g.sparsity_k = None
  /\ call = NoCall

TransIdle == trans = NoResult

NoDiag == [kind |-> "none"]
DiagIdle == diag = NoDiag

NoBatch == [runner |-> "none"]
BatchIdle == batch = NoBatch

NoTrainer == [cls |-> "none"]
TrainerIdle == trainer = NoTrainer

NoObj == [cls |-> "none"]
ObjIdle == obj = NoObj

NoPool == [phase |-> "none"]
PoolIdle == pool = NoPool

NoHier == [phase |-> "none"]
HierIdle == hier = NoHier

LateIdle == TrainerIdle /\ ObjIdle /\ PoolIdle /\ HierIdle

TransInit ==
  /\ \E emb \in EmbeddingSet : tm = AdaptiveTransitionMatrix_init(emb)
  /\ trans = NoResult
  /\ GraphIdle
  /\ DiagIdle
  /\ BatchIdle
  /\ LateIdle

\* a call of AdaptiveTransitionMatrix.forward, with or without entropy scores
TMForward ==
  /\ trans = NoResult
  /\ \E s \in EntropyScores \cup {<<>>} :
       trans' = [op |-> "forward", k |-> 0, m |-> forward(tm, s)]
  /\ UNCHANGED <<tm, graphVars, diagVars, batchVars, lateVars>>

\* a call of AdaptiveTransitionMatrix.get_sparse_transitions(k), 1 <= k <= vocab_size
TMSparse ==
  /\ trans = NoResult
  /\ \E k \in 1 .. Dim, lowFirst \in BOOLEAN :
       trans' = [op |-> "sparse", k |-> k, m |-> get_sparse_transitions(tm, k, lowFirst)]
  /\ UNCHANGED <<tm, graphVars, diagVars, batchVars, lateVars>>

\* the caller takes the returned matrix; the module keeps no copy of it
TMReturn ==
  /\ trans # NoResult
  /\ trans' = NoResult
  /\ UNCHANGED <<tm, graphVars, diagVars, batchVars, lateVars>>

\* an optimizer step, between two calls, on the learnable temperature (a
\* division by a zero temperature gives no matrix and is left out)
TMStepTemperature ==
  /\ trans = NoResult
  /\ \E v \in ParamValues \ {Zero} :
       /\ Abs(v[1] - tm.temperature[1]) = 1 \/ v = RNeg(tm.temperature)
       /\ tm' = [tm EXCEPT !.temperature = v]
  /\ UNCHANGED <<trans, graphVars, diagVars, batchVars, lateVars>>

\* an optimizer step, between two calls, on the learnable self_transition_bias
TMStepBias ==
  /\ trans = NoResult
  /\ \E v \in ParamValues :
       /\ Abs(v[1] - tm.self_transition_bias[1]) = 1
       /\ tm' = [tm EXCEPT !.self_transition_bias = v]
  /\ UNCHANGED <<trans, graphVars, diagVars, batchVars, lateVars>>

TransNext == TMForward \/ TMSparse \/ TMReturn \/ TMStepTemperature \/ TMStepBias

SpecTrans == TransInit /\ [][TransNext]_vars

(***************************************************************************)
(* Calls on a graph object.                                                *)
(***************************************************************************)
GraphInit ==
  /\ graph \in GraphConfigs
  /\ \E emb \in GraphEmbeddings : tm = AdaptiveTransitionMatrix_init(emb)
  /\ call = NoCall
  /\ TransIdle
  /\ DiagIdle
  /\ BatchIdle
  /\ LateIdle

Result(op, t, max_t, weight, rate) ==
  [op |-> op, t |-> t, max_t |-> max_t, weight |-> weight, rate |-> rate]

\* a call of get_adaptive_weight(t, max_t) on an enhanced graph
GetAdaptiveWeight ==
  /\ call = NoCall
  /\ graph.cls \in Enhanced
  /\ \E max_t \in MaxTimes : \E t \in Times(max_t), sv \in ScheduleValues :
       call' = Result("get_adaptive_weight", t, max_t,
                      IF graph.cls = "EnhancedAdaptiveUniformV2"
                      THEN V2_get_adaptive_weight(graph, t, max_t, sv)
                      ELSE get_adaptive_weight(graph, t, max_t),
                      <<>>)
  /\ UNCHANGED <<graph, tm, transVars, diagVars, batchVars, lateVars>>

\* a call of AdaptiveUniform.adaptive_rate(x_t, t); t is not used
AdaptiveUniformRate ==
  /\ call = NoCall
  /\ graph.cls = "AdaptiveUniform"
  /\ \E scores \in EntropyScores, lowFirst \in TieOrders(graph) :
       call' = Result("adaptive_rate", <<>>, <<>>, <<>>,
                      AdaptiveUniform_adaptive_rate(graph, tm, scores, lowFirst))
  /\ UNCHANGED <<graph, tm, transVars, diagVars, batchVars, lateVars>>

\* a call of HierarchicalAdaptiveUniform.adaptive_rate(x_t, t); t is not used
HierarchicalRate ==
  /\ call = NoCall
  /\ graph.cls = "HierarchicalAdaptiveUniform"
  /\ \E level_scores \in [1 .. NumLevels -> EntropyScores], lowFirst \in TieOrders(graph) :
       call' = Result("adaptive_rate", <<>>, <<>>, <<>>,
                      HierarchicalAdaptiveUniform_adaptive_rate(graph, tm, level_scores, lowFirst))
  /\ UNCHANGED <<graph, tm, transVars, diagVars, batchVars, lateVars>>

\* a call of EnhancedAdaptiveUniform.adaptive_rate(x_t, t, max_t)
EnhancedRate ==
  /\ call = NoCall
  /\ graph.cls = "EnhancedAdaptiveUniform"
  /\ \E max_t \in MaxTimes : \E t \in RateTimes(max_t), scores \in EntropyScores, lowFirst \in TieOrders(graph) :
       \E adaptive_weight \in {EnhancedAdaptiveUniform_weight(graph, t, max_t)} :
           call' = Result("adaptive_rate", t, max_t, adaptive_weight,
                          weighted_rate(graph, tm, adaptive_weight, scores, lowFirst))
  /\ UNCHANGED <<graph, tm, transVars, diagVars, batchVars, lateVars>>

\* a call of EnhancedAdaptiveUniformV2.adaptive_rate(x_t, t, max_t)
EnhancedV2Rate ==
  /\ call = NoCall
  /\ graph.cls = "EnhancedAdaptiveUniformV2"
  /\ \E max_t \in MaxTimes : \E t \in RateTimes(max_t), scores \in EntropyScores, lowFirst \in TieOrders(graph),
        sv \in ScheduleValues, cm \in Modulations :
       \E adaptive_weight \in {EnhancedAdaptiveUniformV2_weight(graph, t, max_t, sv, cm)} :
           call' = Result("adaptive_rate", t, max_t, adaptive_weight,
                          weighted_rate(graph, tm, adaptive_weight, scores, lowFirst))
  /\ UNCHANGED <<graph, tm, transVars, diagVars, batchVars, lateVars>>

\* the call returns to its caller; the graph keeps no copy of the result
\* (GraphConfigs has use_information_bottleneck at its default, False; the
\* attribute adaptive_rate sets when it is True is part of SpecObj)
GraphReturn ==
  /\ call # NoCall
  /\ call' = NoCall
  /\ UNCHANGED <<graph, tm, transVars, diagVars, batchVars, lateVars>>

\* an optimizer step, between two calls, on the learnable rate_scale
GraphStepRateScale ==
  /\ call = NoCall
  /\ \E v \in ParamValues :
       /\ Abs(v[1] - graph.rate_scale[1]) = 1
       /\ graph' = [graph EXCEPT !.rate_scale = v]
  /\ UNCHANGED <<call, tm, transVars, diagVars, batchVars, lateVars>>

GraphNext ==
  \/ GetAdaptiveWeight
  \/ AdaptiveUniformRate
  \/ HierarchicalRate
  \/ EnhancedRate
  \/ EnhancedV2Rate
  \/ GraphReturn
  \/ GraphStepRateScale

SpecGraph == GraphInit /\ [][GraphNext]_vars

RateRows == {<<p, i>> : p \in Positions, i \in Tokens}

\* C1: every row of every rate matrix returned by adaptive_rate, of every
\* graph class and in every branch, sums to 0
C1_RowSumZero ==
  call.op = "adaptive_rate" =>
    \A r \in RateRows : RowSum(call.rate[r[1]][r[2]]) = Zero

\* an adaptive_rate result of the V2 graph that blends a sparse top-k rate
\* matrix with the uniform one, after rate_scale has been trained
C1_Witness ==
  /\ call.op = "adaptive_rate"
  /\ graph.cls = "EnhancedAdaptiveUniformV2"
  /\ graph.sparsity_k # None
  /\ graph.rate_scale # One
  /\ RLt(Zero, call.weight) /\ RLt(call.weight, One)

\* C2: in every rate matrix returned by adaptive_rate, for every rate_scale and
\* every adaptive weight the code can produce, the off-diagonal entries are
\* non-negative and each diagonal entry is minus the sum of the off-diagonal
\* entries of its row
C2_GeneratorRows ==
  call.op = "adaptive_rate" =>
    \A r \in RateRows :
      LET row == call.rate[r[1]][r[2]]
          i == r[2]
      IN  /\ \A j \in Tokens \ {i} : RLe(Zero, row[j])
          /\ row[i] = RNeg(OffDiagonalSum(row, i))

FixedScheduleCall ==
  /\ call.op = "get_adaptive_weight"
  /\ ~graph.use_learnable_schedule

\* C4: with the fixed schedule, get_adaptive_weight(0, max_t) = 1 when
\* controlled decay is disabled, and with use_two_stage enabled the weight is 0
\* for every t with t / max_t >= stage_transition_point
C4_WeightEndpoints ==
  FixedScheduleCall =>
    /\ (~graph.use_controlled_decay /\ call.t.v = Zero) => call.weight = One
    /\ (graph.use_two_stage /\ RLe(stage_transition_point, RDiv(call.t.v, call.max_t)))
         => call.weight = Zero

\* C5: for every configuration of an enhanced graph the adaptive weight at
\* t = max_t is 0, and adaptive_rate at t = max_t is the pure uniform rate matrix
C5_ZeroAtMaxTime ==
  (/\ call.op \in {"get_adaptive_weight", "adaptive_rate"}
   /\ graph.cls \in Enhanced
   /\ call.t.v = call.max_t)
  => /\ call.weight = Zero
     /\ call.op = "adaptive_rate" => call.rate = uniform_rate_matrix

\* C6: for every enhanced graph and every t with 0 <= t <= max_t the weight
\* adaptive_rate blends with, the V2 vocabulary modulation included, is in [0, 1]
C6_WeightInUnitInterval ==
  (/\ call.op = "adaptive_rate"
   /\ graph.cls \in Enhanced
   /\ RLe(Zero, call.t.v) /\ RLe(call.t.v, call.max_t))
  => RLe(Zero, call.weight) /\ RLe(call.weight, One)

EntropyValues == {Rat(95, 100), Rat(96, 100)}
KLValues == {Rat(1, 100), Rat(1, 200)}
Chi2Values == {Rat(5, 100), Rat(10, 100)}

\* the diagnostics that track a chi-squared p-value and those that do not
Chi2Diagnostics == {"DiffusionValidator", "EnhancedMetrics"}
PlainDiagnostics == {"validate_convergence", "run_quick_enhanced_test"}
Diagnostics == Chi2Diagnostics \cup PlainDiagnostics

StepMetrics(kind) ==
  IF kind \in Chi2Diagnostics
  THEN [entropy : EntropyValues, kl : KLValues, chi2 : Chi2Values]
  ELSE [entropy : EntropyValues, kl : KLValues]

\* trajectory[-1]
final(trajectory) == trajectory[Len(trajectory)]

\* DiffusionValidator.test_forward_diffusion_convergence: 'converged'
\* (max_entropy = np.log(vocab_size) / np.log(vocab_size))
DiffusionValidator_converged(metrics) ==
  LET final_entropy == final(metrics).entropy
      final_kl == final(metrics).kl
      final_chi2 == final(metrics).chi2
      max_entropy == One
  IN  /\ RLt(Rat(95, 100), RDiv(final_entropy, max_entropy))
      /\ RLt(final_kl, Rat(1, 100))
      /\ RLt(Rat(5, 100), final_chi2)

\* overall_converged with the chi-squared p-value required too
EnhancedMetrics_chi2_converged(metrics) ==
  LET final_entropy == final(metrics).entropy
      final_kl == final(metrics).kl
      final_chi2_p == final(metrics).chi2
  IN  RLt(Rat(95, 100), final_entropy) /\ RLt(final_kl, Rat(1, 100)) /\ RLt(Rat(5, 100), final_chi2_p)

\* EnhancedMetrics.measure_convergence_quality: final_status['overall_converged']
EnhancedMetrics_overall_converged(metrics) ==
  LET final_entropy == final(metrics).entropy
      final_kl == final(metrics).kl
  IN  RLt(Rat(95, 100), final_entropy) /\ RLt(final_kl, Rat(1, 100))

\* EnhancedAdaptiveUniform.validate_convergence: converged
validate_convergence_converged(metrics_over_time) ==
  LET final_kl == final(metrics_over_time).kl
      final_entropy == final(metrics_over_time).entropy
  IN  RLt(final_kl, Rat(1, 100)) /\ RLt(Rat(95, 100), final_entropy)

\* run_quick_enhanced_test.test_convergence: converged
run_quick_enhanced_test_converged(metrics) ==
  LET final_entropy == final(metrics).entropy
      final_kl == final(metrics).kl
  IN  RLt(Rat(95, 100), final_entropy) /\ RLt(final_kl, Rat(1, 100))

Verdict(kind, metrics) ==
  CASE kind = "DiffusionValidator" -> DiffusionValidator_converged(metrics)
    [] kind = "EnhancedMetrics" -> EnhancedMetrics_overall_converged(metrics)
    [] kind = "validate_convergence" -> validate_convergence_converged(metrics)
    [] kind = "run_quick_enhanced_test" -> run_quick_enhanced_test_converged(metrics)

\* relaxed_convergence_epsilon of the constructors in the repository
Epsilons == {Rat(1, 10), Rat(2, 10)}

\* distributions over the vocabulary whose entries deviate from 1 / vocab_size
\* by multiples of a tenth of 1 / vocab_size
Distributions ==
  {p \in [Tokens -> {Rat(k, 10 * Dim) : k \in 7 .. 13}] : RSum(p) = One}

RMax(S) == CHOOSE x \in S : \A y \in S : RLe(y, x)

\* check_relaxed_convergence with the boundary counted as converged
check_relaxed_convergence_inclusive(epsilon, distribution) ==
  LET uniform == Rat(1, Dim)
      max_deviation == RMax({RAbs(RSub(distribution[i], uniform)) : i \in Tokens})
  IN  <<RLe(max_deviation, RMul(epsilon, uniform)), max_deviation>>

\* EnhancedAdaptiveUniformV2.check_relaxed_convergence
check_relaxed_convergence(epsilon, distribution) ==
  LET uniform == Rat(1, Dim)
      max_deviation == RMax({RAbs(RSub(distribution[i], uniform)) : i \in Tokens})
      converged == RLt(max_deviation, RMul(epsilon, uniform))
  IN  <<converged, max_deviation>>

DiagInit ==
  /\ DiagIdle
  /\ tm = AdaptiveTransitionMatrix_init(CHOOSE emb \in GraphEmbeddings : TRUE)
  /\ TransIdle
  /\ GraphIdle
  /\ BatchIdle
  /\ LateIdle

notDiag == <<transVars, graphVars, batchVars, lateVars>>

\* a diagnostic starts with empty metric lists; its loop runs num_steps + 1 times
DiagStart ==
  /\ diag = NoDiag
  /\ \E kind \in Diagnostics, num_steps \in 1 .. MaxTraj :
       diag' = [kind |-> kind, num_steps |-> num_steps, metrics |-> <<>>,
                status |-> "running", converged |-> FALSE]
  /\ UNCHANGED notDiag

\* one pass of the loop over the diffusion steps: the step's metrics are appended
DiagStep ==
  /\ diag.kind \in Diagnostics
  /\ diag.status = "running"
  /\ Len(diag.metrics) < diag.num_steps + 1
  /\ \E m \in StepMetrics(diag.kind) :
       diag' = [diag EXCEPT !.metrics = Append(@, m)]
  /\ UNCHANGED notDiag

\* after the loop: the verdict from the last entries of the metric lists
DiagFinish ==
  /\ diag.kind \in Diagnostics
  /\ diag.status = "running"
  /\ Len(diag.metrics) = diag.num_steps + 1
  /\ diag' = [diag EXCEPT !.status = "done", !.converged = Verdict(diag.kind, diag.metrics)]
  /\ UNCHANGED notDiag

\* a call of check_relaxed_convergence(distribution)
CheckRelaxedConvergence ==
  /\ diag = NoDiag
  /\ \E epsilon \in Epsilons, distribution \in Distributions :
       LET r == check_relaxed_convergence(epsilon, distribution)
       IN  diag' = [kind |-> "check_relaxed_convergence", epsilon |-> epsilon,
                    distribution |-> distribution,
                    converged |-> r[1], max_deviation |-> r[2]]
  /\ UNCHANGED notDiag

(***************************************************************************)
(* Histogram metrics of the diagnostics: DiffusionValidator._compute_entropy, *)
(* _compute_kl_from_uniform, _chi_squared_test and the same quantities in  *)
(* EnhancedMetrics.measure_convergence_quality.  log() is replaced by Log, *)
(* the inverse of Exp: Log(1) = 0, Log strictly increasing,                *)
(* Log(1/x) = -Log(x).  The 1e-10 inside the logarithms is log_eps, larger *)
(* than in the code so that the fractions stay within machine integers;    *)
(* Tolerance is what "equal within tolerance" allows.                      *)
(***************************************************************************)
Log(x) == IF RLe(One, x) THEN RSub(x, One) ELSE RSub(One, RInv(x))
log_eps == Rat(1, 1000)
Tolerance == Rat(1, 100)
Near(a, b) == RLe(RAbs(RSub(a, b)), Tolerance)

RECURSIVE Repeat(_, _)
Repeat(a, n) == IF n = 0 THEN <<>> ELSE <<a>> \o Repeat(a, n - 1)

RECURSIVE Flatten(_)
Flatten(ss) == IF ss = <<>> THEN <<>> ELSE Head(ss) \o Flatten(Tail(ss))

\* a flattened token batch x.view(-1) with counts[i] copies of token i
batch_of(vocab_size, counts) ==
  Flatten([k \in 1 .. vocab_size |-> Repeat(k - 1, counts[k - 1])])

\* histograms of vocab_size tokens over the vocabulary, and the two
\* histograms of 40 tokens over a vocabulary of 4
Histograms ==
  {<<Dim, c>> : c \in {h \in [Tokens -> 0 .. Dim] : RSum([i \in Tokens |-> RInt(h[i])]) = RInt(Dim)}}
    \cup {<<4, [i \in 0 .. 3 |-> 10]>>, <<4, [i \in 0 .. 3 |-> IF i = 0 THEN 40 ELSE 0]>>}

\* token_counts.scatter_add_(0, x_flat, ones)
token_counts(vocab_size, x_flat) ==
  [i \in 0 .. (vocab_size - 1) |-> Cardinality({k \in DOMAIN x_flat : x_flat[k] = i})]

\* probs = token_counts / (batch_size * seq_len)
token_probs(vocab_size, x_flat) ==
  LET counts == token_counts(vocab_size, x_flat)
  IN  [i \in 0 .. (vocab_size - 1) |-> Rat(counts[i], Len(x_flat))]

\* the entropy without the division by log(vocab_size)
unnormalized_entropy(vocab_size, x_flat) ==
  LET probs == token_probs(vocab_size, x_flat)
  IN  RNeg(RSum([i \in DOMAIN probs |-> RMul(probs[i], Log(RAdd(probs[i], log_eps)))]))

\* DiffusionValidator._compute_entropy; the same statements in
\* EnhancedMetrics.measure_convergence_quality
compute_entropy(vocab_size, x_flat) ==
  LET probs == token_probs(vocab_size, x_flat)
      entropy == RNeg(RSum([i \in DOMAIN probs |-> RMul(probs[i], Log(RAdd(probs[i], log_eps)))]))
  IN  RDiv(entropy, Log(RInt(vocab_size)))

\* the divergence of the uniform distribution from the histogram: KL(uniform || probs)
kl_of_uniform_from_batch(vocab_size, x_flat) ==
  LET probs == token_probs(vocab_size, x_flat)
      uniform_probs == [i \in DOMAIN probs |-> Rat(1, vocab_size)]
  IN  RSum([i \in DOMAIN probs |->
        RMul(uniform_probs[i], Log(RDiv(uniform_probs[i], RAdd(probs[i], log_eps))))])

\* DiffusionValidator._compute_kl_from_uniform
compute_kl_from_uniform(vocab_size, x_flat) ==
  LET probs == token_probs(vocab_size, x_flat)
      uniform_probs == [i \in DOMAIN probs |-> Rat(1, vocab_size)]
  IN  RSum([i \in DOMAIN probs |->
        RMul(probs[i], Log(RDiv(RAdd(probs[i], log_eps), uniform_probs[i])))])

\* F.kl_div(uniform_probs.log(), token_probs, reduction='sum'): the sum of
\* target * (log(target) - input), a term with target 0 being 0
F_kl_div_sum(input, target) ==
  RSum([i \in DOMAIN target |->
        IF target[i] = Zero THEN Zero ELSE RMul(target[i], RSub(Log(target[i]), input[i]))])

\* EnhancedMetrics.measure_convergence_quality: kl_div
EnhancedMetrics_kl_div(vocab_size, x_flat) ==
  LET probs == token_probs(vocab_size, x_flat)
      uniform_probs == [i \in DOMAIN probs |-> Rat(1, vocab_size)]
  IN  F_kl_div_sum([i \in DOMAIN probs |-> Log(uniform_probs[i])], probs)

\* the chi-squared statistic without the division by the expected count
chi2_stat_undivided(vocab_size, x_flat) ==
  LET observed == token_counts(vocab_size, x_flat)
      expected_count == Rat(Len(x_flat), vocab_size)
  IN  RSum([i \in DOMAIN observed |->
        RMul(RSub(RInt(observed[i]), expected_count), RSub(RInt(observed[i]), expected_count))])

\* DiffusionValidator._chi_squared_test: chi2_stat; stats.chisquare in
\* EnhancedMetrics computes the same sum
chi2_stat(vocab_size, x_flat) ==
  LET observed == token_counts(vocab_size, x_flat)
      expected_count == Rat(Len(x_flat), vocab_size)
  IN  RSum([i \in DOMAIN observed |->
        RDiv(RMul(RSub(RInt(observed[i]), expected_count), RSub(RInt(observed[i]), expected_count)),
             expected_count)])

\* 1 - stats.chi2.cdf(chi2_stat, df): exp(-x / df) in the place of the
\* survival function (it is exp(-x / 2) for df = 2), the exponential taken
\* as the fourth power of Exp(-x / (4 df))
chi2_sf(x, df) ==
  LET e == Exp(RNeg(RDiv(x, RInt(4 * df))))
  IN  RMul(RMul(e, e), RMul(e, e))

HistogramDiagnostics == {"DiffusionValidator", "EnhancedMetrics"}

\* the metrics of one diffusion step of a diagnostic, from the batch x_t
MeasureBatch ==
  /\ diag = NoDiag
  /\ \E source \in HistogramDiagnostics, h \in Histograms :
       LET vocab_size == h[1]
           x_flat == batch_of(vocab_size, h[2])
           stat == chi2_stat(vocab_size, x_flat)
           df == vocab_size - 1
       IN  diag' = [kind |-> "batch_metrics", source |-> source,
                    vocab_size |-> vocab_size, counts |-> h[2], x_flat |-> x_flat,
                    entropy |-> compute_entropy(vocab_size, x_flat),
                    kl |-> IF source = "DiffusionValidator"
                           THEN compute_kl_from_uniform(vocab_size, x_flat)
                           ELSE EnhancedMetrics_kl_div(vocab_size, x_flat),
                    chi2_stat |-> stat, df |-> df, p_value |-> chi2_sf(stat, df)]
  /\ UNCHANGED notDiag

\* the diagnostic returns to its caller
DiagReturn ==
  /\ \/ diag.kind \in Diagnostics /\ diag.status = "done"
     \/ diag.kind = "check_relaxed_convergence"
     \/ diag.kind = "batch_metrics"
  /\ diag' = NoDiag
  /\ UNCHANGED notDiag

DiagNext ==
  DiagStart \/ DiagStep \/ DiagFinish \/ CheckRelaxedConvergence \/ MeasureBatch \/ DiagReturn

SpecDiag == DiagInit /\ [][DiagNext]_vars

\* C8: every convergence verdict is true exactly when the final normalized
\* entropy is above 0.95 and the final KL from uniform is below 0.01, both
\* strictly; DiffusionValidator also requires the final chi-squared p-value to
\* be strictly above 0.05, and no other verdict depends on the p-value
C8_Verdicts ==
  (diag.kind \in Diagnostics /\ diag.status = "done") =>
    LET last == diag.metrics[diag.num_steps + 1]
    IN  diag.converged <=>
          /\ RLt(Rat(95, 100), last.entropy)
          /\ RLt(last.kl, Rat(1, 100))
          /\ diag.kind = "DiffusionValidator" => RLt(Rat(5, 100), last.chi2)

\* final metrics that EnhancedMetrics accepts with a p-value of exactly 0.05,
\* after a first step that was not converged
C8_Witness ==
  /\ diag.kind = "EnhancedMetrics" /\ diag.status = "done"
  /\ diag.converged
  /\ diag.metrics[diag.num_steps + 1].chi2 = Rat(5, 100)
  /\ diag.metrics[1].entropy = Rat(95, 100)

\* C9: check_relaxed_convergence reports converged exactly when the maximum of
\* |p_i - 1/V| is strictly below epsilon / V, so a maximum deviation of exactly
\* epsilon / V is not converged; the second value returned is that maximum
C9_RelaxedConvergence ==
  diag.kind = "check_relaxed_convergence" =>
    LET deviation(i) == RAbs(RSub(diag.distribution[i], Rat(1, Dim)))
        bound == RMul(diag.epsilon, Rat(1, Dim))
    IN  /\ \E i \in Tokens : diag.max_deviation = deviation(i)
        /\ \A i \in Tokens : RLe(deviation(i), diag.max_deviation)
        /\ diag.converged <=> \A i \in Tokens : RLt(deviation(i), bound)
        /\ diag.max_deviation = bound => ~diag.converged

\* a distribution whose maximum deviation is exactly epsilon / V
C9_Witness ==
  /\ diag.kind = "check_relaxed_convergence"
  /\ diag.max_deviation = RMul(diag.epsilon, Rat(1, Dim))
  /\ ~diag.converged

(***************************************************************************)
(* Batch runners: run_scaled_experiments.run_all_scaled_experiments and    *)
(* ComprehensiveExperimentRunner.run_all_experiments.                      *)
(***************************************************************************)
Runners == {"run_all_scaled_experiments", "run_all_experiments"}

\* what an experiment can raise (subclasses of Exception), and no exception
Exceptions == {[type |-> "RuntimeError", args |-> <<"CUDA out of memory">>],
               [type |-> "ValueError", args |-> <<>>]}
NoException == [type |-> "none", args |-> <<>>]

\* str(e) of an exception with at most one argument
str(e) == IF e.args = <<>> THEN "" ELSE e.args[1]

\* what the body of an experiment returns when nothing is raised
ResultsRecord(exp_name) == [experiment |-> exp_name, metrics |-> "measured"]
ErrorRecord(message) == [error |-> message]

\* all_results[exp_name] = record
dict_set(all_results, exp_name, record) == (exp_name :> record) @@ all_results

\* an except clause that only prints the error
except_Exception_print_only(all_results, exp_name, e) == all_results

\* except Exception as e: all_results[exp_name] = {'error': str(e)}
except_Exception(all_results, exp_name, e) ==
  dict_set(all_results, exp_name, ErrorRecord(str(e)))

\* the try statement of one pass of the loop: the experiment runs and its
\* results are stored; run_all_scaled_experiments then dumps all_results to a
\* JSON file inside the same try
try_experiment(runner, all_results, exp_name, raised, save_raised) ==
  IF raised # NoException THEN except_Exception(all_results, exp_name, raised)
  ELSE LET stored == dict_set(all_results, exp_name, ResultsRecord(exp_name))
       IN  IF runner = "run_all_scaled_experiments" /\ save_raised # NoException
           THEN except_Exception(stored, exp_name, save_raised)
           ELSE stored

\* what the intermediate save can raise
SaveOutcomes(runner) ==
  IF runner = "run_all_scaled_experiments"
  THEN {NoException, [type |-> "FileNotFoundError", args |-> <<"No such file or directory">>]}
  ELSE {NoException}

BatchInit ==
  /\ BatchIdle
  /\ tm = AdaptiveTransitionMatrix_init(CHOOSE emb \in GraphEmbeddings : TRUE)
  /\ TransIdle
  /\ GraphIdle
  /\ DiagIdle
  /\ LateIdle

notBatch == <<transVars, graphVars, diagVars, lateVars>>

\* the runner starts on a dict of experiments named 1 .. n with all_results = {};
\* log is what the loop prints: each experiment started and what it raised
BatchStart ==
  /\ batch = NoBatch
  /\ \E runner \in Runners, n \in 1 .. MaxExperiments :
       batch' = [runner |-> runner, experiments |-> n, next |-> 1,
                 all_results |-> <<>>, log |-> <<>>, status |-> "running"]
  /\ UNCHANGED notBatch

\* one pass of the loop over experiments.items()
RunExperiment ==
  /\ batch.runner \in Runners
  /\ batch.status = "running"
  /\ batch.next <= batch.experiments
  /\ \E raised \in Exceptions \cup {NoException}, save_raised \in SaveOutcomes(batch.runner) :
       batch' = [batch EXCEPT
                   !.all_results = try_experiment(batch.runner, @, batch.next, raised, save_raised),
                   !.log = Append(@, [exp_name |-> batch.next, raised |-> raised]),
                   !.next = @ + 1]
  /\ UNCHANGED notBatch

\* return all_results
BatchReturn ==
  /\ batch.runner \in Runners
  /\ batch.status = "running"
  /\ batch.next > batch.experiments
  /\ batch' = [batch EXCEPT !.status = "returned"]
  /\ UNCHANGED notBatch

\* the caller takes the mapping
BatchDone ==
  /\ batch.runner \in Runners
  /\ batch.status = "returned"
  /\ batch' = NoBatch
  /\ UNCHANGED notBatch

BatchNext == BatchStart \/ RunExperiment \/ BatchReturn \/ BatchDone

SpecBatch == BatchInit /\ [][BatchNext]_vars

\* C10: an exception raised by an experiment is recorded as {'error': str(e)}
\* under the experiment's name, every later experiment is still run, and the
\* returned mapping has exactly one entry per configured experiment, each a
\* results record or an error record
C10_BatchCompletes ==
  (batch.runner \in Runners /\ batch.status = "returned") =>
    LET names == 1 .. batch.experiments
    IN  /\ DOMAIN batch.all_results = names
        /\ Len(batch.log) = batch.experiments
        /\ \A k \in names :
             /\ batch.log[k].exp_name = k
             /\ \/ batch.all_results[k] = ResultsRecord(k)
                \/ DOMAIN batch.all_results[k] = {"error"}
             /\ batch.log[k].raised # NoException =>
                  batch.all_results[k] = [error |-> str(batch.log[k].raised)]

\* a returned mapping whose first experiment failed and whose last one has results
C10_Witness ==
  /\ batch.runner \in Runners /\ batch.status = "returned"
  /\ batch.experiments >= 2
  /\ batch.log[1].raised # NoException
  /\ batch.all_results[1] = [error |-> "CUDA out of memory"]
  /\ batch.all_results[batch.experiments] = ResultsRecord(batch.experiments)

(***************************************************************************)
(* AdaptiveUniform.sample_transition, inherited by every graph class.      *)
(***************************************************************************)
\* token batches: every constant batch and the batch 0, 1, 2, ... by position
TokenBatches ==
  {[p \in Positions |-> a] : a \in Tokens} \cup {[p \in Positions |-> (p[2] - 1) % Dim]}

\* noise levels sigma >= 0 and draws of torch.rand, one per position
Sigmas == {Zero, One}
UniformDraws == [Positions -> {Rat(1, 4), Rat(3, 4)}]

\* sample_transition with the move chance scaled by the graph's rate_scale
sample_transition_rate_scaled(g, i, sigma, rand, randint) ==
  LET move_chance == RSub(One, Exp(RNeg(RMul(sigma, g.rate_scale))))
  IN  [p \in Positions |-> IF RLt(rand[p], move_chance) THEN randint[p] ELSE i[p]]

\* AdaptiveUniform.sample_transition; rand and randint are the draws of
\* torch.rand and of torch.randint_like(i, self.dim)
sample_transition(g, i, sigma, rand, randint) ==
  LET move_chance == RSub(One, Exp(RNeg(sigma)))
      move_indices == [p \in Positions |-> RLt(rand[p], move_chance)]
  IN  [p \in Positions |-> IF move_indices[p] THEN randint[p] ELSE i[p]]

\* a call of sample_transition(i, sigma) on the graph
SampleTransition ==
  /\ call = NoCall
  /\ \E i \in TokenBatches, sigma \in Sigmas, rand \in UniformDraws, randint \in TokenBatches :
       call' = [op |-> "sample_transition", i |-> i, sigma |-> sigma,
                rand |-> rand, randint |-> randint,
                i_pert |-> sample_transition(graph, i, sigma, rand, randint)]
  /\ UNCHANGED <<graph, tm, transVars, diagVars, batchVars, lateVars>>

SampleNext == SampleTransition \/ GraphReturn

\* one graph object of each class
Classes == {g.cls : g \in GraphConfigs}
SampleInit ==
  /\ graph \in {CHOOSE g \in GraphConfigs : g.cls = c /\ g.sparsity_k = None : c \in Classes}
  /\ \E emb \in GraphEmbeddings : tm = AdaptiveTransitionMatrix_init(emb)
  /\ call = NoCall
  /\ TransIdle
  /\ DiagIdle
  /\ BatchIdle
  /\ LateIdle

SpecSample == SampleInit /\ [][SampleNext]_vars

\* every graph object: any class, flags, sparsity and trained rate_scale
AnyGraph == {[g EXCEPT !.rate_scale = v] : g \in GraphConfigs, v \in ParamValues}

\* C11: sample_transition returns, at every position, the input token or a
\* token in [0, dim), and a graph that differs in class, estimator, rate
\* parameters or policy flags returns the same tokens for the same input
\* tokens, sigma and random draws
C11_SamplingIgnoresGraph ==
  call.op = "sample_transition" =>
    /\ \A p \in Positions : call.i_pert[p] = call.i[p] \/ call.i_pert[p] \in 0 .. (Dim - 1)
    /\ \A other \in AnyGraph :
         sample_transition(other, call.i, call.sigma, call.rand, call.randint) = call.i_pert

\* a call on an enhanced graph where one position moved to a new token and
\* another position kept its token
C11_Witness ==
  /\ call.op = "sample_transition"
  /\ graph.cls = "EnhancedAdaptiveUniformV2"
  /\ \E p \in Positions : call.i_pert[p] # call.i[p]
  /\ \E p \in Positions : call.i_pert[p] = call.i[p] /\ call.randint[p] # call.i[p]

UniformHistogram ==
  /\ diag.kind = "batch_metrics"
  /\ \A i \in DOMAIN diag.counts : diag.counts[i] * diag.vocab_size = Len(diag.x_flat)

\* C12: for a batch whose histogram is exactly uniform over the vocabulary the
\* KL from uniform is 0 and the normalized entropy is 1, within tolerance
C12_UniformHistogram ==
  UniformHistogram => Near(diag.kl, Zero) /\ Near(diag.entropy, One)

\* the metrics of DiffusionValidator on 40 tokens, 10 of each of 4 entries
C12_Witness ==
  /\ UniformHistogram
  /\ diag.source = "DiffusionValidator"
  /\ diag.vocab_size = 4 /\ Len(diag.x_flat) = 40

SingleTokenHistogram ==
  /\ diag.kind = "batch_metrics"
  /\ \E i \in DOMAIN diag.counts : diag.counts[i] = Len(diag.x_flat)

\* C13: for a batch in which every token is the same vocabulary entry the
\* normalized entropy is 0 and the KL from uniform is log(vocab_size), within
\* tolerance; no histogram has a larger KL from uniform
C13_SingleTokenHistogram ==
  /\ SingleTokenHistogram =>
       /\ Near(diag.entropy, Zero)
       /\ Near(diag.kl, Log(RInt(diag.vocab_size)))
  /\ diag.kind = "batch_metrics" =>
       RLe(diag.kl, RAdd(Log(RInt(diag.vocab_size)), Tolerance))

\* the metrics of DiffusionValidator on 40 copies of one of 4 entries
C13_Witness ==
  /\ SingleTokenHistogram
  /\ diag.source = "DiffusionValidator"
  /\ diag.vocab_size = 4 /\ Len(diag.x_flat) = 40
  /\ RLt(One, diag.kl)

\* sum((observed_i - N/V)^2 / (N/V)) of a histogram, N tokens over V entries
PearsonStatistic(counts, N, V) ==
  RSum([i \in DOMAIN counts |->
    RDiv(RMul(RSub(RInt(counts[i]), Rat(N, V)), RSub(RInt(counts[i]), Rat(N, V))), Rat(N, V))])

\* C14: the chi-squared test of the diagnostics uses the statistic
\* sum((observed_i - N/V)^2 / (N/V)) with V - 1 degrees of freedom; over a
\* vocabulary of 4, counts [10,10,10,10] give statistic 0 and p > 0.05, and
\* counts [40,0,0,0] give statistic 120 and a p-value near 0
C14_ChiSquaredTest ==
  diag.kind = "batch_metrics" =>
    /\ diag.chi2_stat = PearsonStatistic(diag.counts, Len(diag.x_flat), diag.vocab_size)
    /\ diag.df = diag.vocab_size - 1
    /\ diag.counts = [i \in 0 .. 3 |-> 10] =>
         diag.chi2_stat = Zero /\ RLt(Rat(5, 100), diag.p_value)
    /\ diag.counts = [i \in 0 .. 3 |-> IF i = 0 THEN 40 ELSE 0] =>
         diag.chi2_stat = RInt(120) /\ RLt(diag.p_value, Rat(1, 1000))

\* the test of EnhancedMetrics on 40 copies of token 0 out of 4
C14_Witness ==
  /\ diag.kind = "batch_metrics"
  /\ diag.source = "EnhancedMetrics"
  /\ diag.counts = [i \in 0 .. 3 |-> IF i = 0 THEN 40 ELSE 0]
  /\ diag.chi2_stat = RInt(120)

(***************************************************************************)
(* run_final_scaled_experiments.py (AEGUDTrainer) and                      *)
(* run_scaled_experiments.py (ScaledTrainer, run_experiment): the training *)
(* loop as far as it writes checkpoints.  The state of the model, of the   *)
(* optimizer and of the scheduler is the number of optimizer steps taken.  *)
(***************************************************************************)
MaxSteps == 3

Trainers == {"AEGUDTrainer", "ScaledTrainer"}

\* range(config['num_epochs']), len(train_loader), and the cadences
\* log_every, val_every, checkpoint_every of the training configuration
EpochCounts == 0 .. 2
LoaderLengths == 1 .. 2
Cadences == 1 .. 2

TrainerConfigs ==
  [experiment_name : {"Enhanced_AEGUD_Full"}, num_steps : 1 .. MaxSteps,
   num_epochs : EpochCounts, batches_per_epoch : LoaderLengths,
   log_every : Cadences, val_every : Cadences, checkpoint_every : Cadences]

\* validation losses, and float('inf')
ValLosses == 1 .. 2
Inf == 3

\* the dict AEGUDTrainer.save_checkpoint builds
AEGUDTrainer_checkpoint(self) ==
  IF self.graph_has_state_dict
  THEN [epoch |-> self.epoch, global_step |-> self.step,
        model_state_dict |-> self.model, optimizer_state_dict |-> self.optimizer,
        scheduler_state_dict |-> self.scheduler, best_val_loss |-> self.best_val_loss,
        config |-> self.config, graph_state_dict |-> self.model]
  ELSE [epoch |-> self.epoch, global_step |-> self.step,
        model_state_dict |-> self.model, optimizer_state_dict |-> self.optimizer,
        scheduler_state_dict |-> self.scheduler, best_val_loss |-> self.best_val_loss,
        config |-> self.config]

\* the dict ScaledTrainer.save_checkpoint builds
ScaledTrainer_checkpoint(self, metrics) ==
  IF self.graph_has_state_dict
  THEN [model_state_dict |-> self.model, optimizer_state_dict |-> self.optimizer,
        scheduler_state_dict |-> self.scheduler, step |-> self.step,
        best_loss |-> self.best_loss, metrics |-> metrics, graph_state_dict |-> self.model]
  ELSE [model_state_dict |-> self.model, optimizer_state_dict |-> self.optimizer,
        scheduler_state_dict |-> self.scheduler, step |-> self.step,
        best_loss |-> self.best_loss, metrics |-> metrics]

\* torch.save(checkpoint, path): the file at path is created or replaced
torch_save(files, checkpoint, path) ==
  [f \in DOMAIN files \cup {path} |-> IF f = path THEN checkpoint ELSE files[f]]

checkpoint_step(step) == <<"checkpoint_step", step>>
best_model == <<"best_model", 0>>

\* a save_checkpoint that writes the file at path only
save_checkpoint_at_path_only(self, path, is_best) ==
  [self EXCEPT !.files = torch_save(self.files, AEGUDTrainer_checkpoint(self), path)]

\* AEGUDTrainer.save_checkpoint(path, is_best)
AEGUDTrainer_save_checkpoint(self, path, is_best) ==
  LET checkpoint == AEGUDTrainer_checkpoint(self)
      saved == torch_save(self.files, checkpoint, path)
  IN  [self EXCEPT !.files = IF is_best THEN torch_save(saved, checkpoint, best_model) ELSE saved]

\* ScaledTrainer.save_checkpoint(path, metrics)
ScaledTrainer_save_checkpoint(self, path, metrics) ==
  [self EXCEPT !.files = torch_save(self.files, ScaledTrainer_checkpoint(self, metrics), path)]

\* ScaledTrainer.load_checkpoint(path): torch.load raises when the file does
\* not exist; otherwise the trainer takes the state stored in the checkpoint
ScaledTrainer_load_checkpoint(self, path) ==
  IF path \notin DOMAIN self.files
  THEN [self EXCEPT !.exception = "FileNotFoundError", !.pc = "raised"]
  ELSE LET checkpoint == self.files[path]
       IN  [self EXCEPT !.model = checkpoint.model_state_dict,
                        !.optimizer = checkpoint.optimizer_state_dict,
                        !.scheduler = checkpoint.scheduler_state_dict,
                        !.step = checkpoint.step,
                        !.best_loss = checkpoint.best_loss,
                        !.pc = "done"]

\* for epoch in range(num_epochs): the loop body is entered when an epoch is left
enter_loop(config) == IF config.num_epochs > 0 THEN "train_step" ELSE "loop_exit"

\* AEGUDTrainer.__init__ / setup_experiment and ScaledTrainer.__init__, up to
\* the head of the training loop: the counter is 0, the best loss is infinity,
\* no checkpoint is written and avg_loss is not yet bound
TrainerInit ==
  /\ \E cls \in Trainers, config \in TrainerConfigs, has \in BOOLEAN :
       trainer = [cls |-> cls, config |-> config, graph_has_state_dict |-> has,
                  epoch |-> 0, step |-> 0, model |-> 0, optimizer |-> 0, scheduler |-> 0,
                  best_val_loss |-> Inf, best_loss |-> Inf,
                  files |-> <<>>, loop_epoch |-> 0, batch_idx |-> 0,
                  avg_loss |-> <<>>, val_loss |-> <<>>, val_steps |-> <<>>,
                  exception |-> "none", pc |-> enter_loop(config)]
  /\ tm = AdaptiveTransitionMatrix_init(CHOOSE emb \in GraphEmbeddings : TRUE)
  /\ TransIdle
  /\ GraphIdle
  /\ DiagIdle
  /\ BatchIdle
  /\ ObjIdle /\ PoolIdle /\ HierIdle

notTrainer == <<transVars, graphVars, diagVars, batchVars, obj, pool, hier>>

\* train_step: optimizer.step(), scheduler.step(), the step counter goes up
TrainStep ==
  /\ trainer.pc = "train_step"
  /\ trainer' = [trainer EXCEPT !.step = @ + 1, !.model = @ + 1, !.optimizer = @ + 1,
                                !.scheduler = @ + 1, !.pc = "logging"]
  /\ UNCHANGED notTrainer

\* the logging of the training loop: at a logging step avg_loss is bound to
\* the mean of the last losses (every loss is 1 here)
Logging ==
  /\ trainer.pc = "logging"
  /\ trainer' = IF trainer.step % trainer.config.log_every = 0
                THEN [trainer EXCEPT !.avg_loss = <<1>>, !.pc = "validation"]
                ELSE [trainer EXCEPT !.pc = "validation"]
  /\ UNCHANGED notTrainer

\* the validation of the training loop: a new best loss saves a checkpoint
Validation ==
  /\ trainer.pc = "validation"
  /\ IF trainer.step % trainer.config.val_every = 0
     THEN \E val_loss \in ValLosses :
            LET evaluated == [trainer EXCEPT !.val_loss = Append(@, val_loss),
                                             !.val_steps = Append(@, trainer.step),
                                             !.pc = "checkpoint"]
            IN  IF val_loss < trainer.best_val_loss
                THEN LET self == [evaluated EXCEPT !.best_val_loss = val_loss]
                     IN  trainer' = IF trainer.cls = "AEGUDTrainer"
                                    THEN AEGUDTrainer_save_checkpoint(self, checkpoint_step(self.step), TRUE)
                                    ELSE ScaledTrainer_save_checkpoint(self, best_model,
                                           [val_loss |-> val_loss, step |-> self.step])
                ELSE trainer' = evaluated
     ELSE trainer' = [trainer EXCEPT !.pc = "checkpoint"]
  /\ UNCHANGED notTrainer

\* the end of the loop body: break at num_steps, else the next batch, else
\* the next epoch (self.epoch = epoch in AEGUDTrainer), else the loops are over
next_iteration(self) ==
  IF self.step >= self.config.num_steps
  THEN [self EXCEPT !.pc = "loop_exit"]
  ELSE IF self.batch_idx + 1 < self.config.batches_per_epoch
  THEN [self EXCEPT !.batch_idx = @ + 1, !.pc = "train_step"]
  ELSE IF self.loop_epoch + 1 < self.config.num_epochs
  THEN [self EXCEPT !.loop_epoch = @ + 1, !.batch_idx = 0,
                    !.epoch = IF self.cls = "AEGUDTrainer" THEN self.loop_epoch + 1 ELSE @,
                    !.pc = "train_step"]
  ELSE [self EXCEPT !.pc = "loop_exit"]

\* the periodic checkpoint of the training loop, then the test of num_steps;
\* run_scaled_experiment reads the local avg_loss, unbound before the first
\* logging step
PeriodicCheckpoint ==
  /\ trainer.pc = "checkpoint"
  /\ IF trainer.step % trainer.config.checkpoint_every = 0
     THEN IF trainer.cls = "AEGUDTrainer"
          THEN trainer' = next_iteration(
                 AEGUDTrainer_save_checkpoint(trainer, checkpoint_step(trainer.step), FALSE))
          ELSE IF trainer.avg_loss = <<>>
          THEN trainer' = [trainer EXCEPT !.exception = "UnboundLocalError", !.pc = "raised"]
          ELSE trainer' = next_iteration(
                 ScaledTrainer_save_checkpoint(trainer, checkpoint_step(trainer.step),
                   [train_loss |-> trainer.avg_loss[1], step |-> trainer.step]))
     ELSE trainer' = next_iteration(trainer)
  /\ UNCHANGED notTrainer

\* AEGUDTrainer.train after the loop: the results, total_steps included
TrainResults ==
  /\ trainer.pc = "loop_exit"
  /\ trainer.cls = "AEGUDTrainer"
  /\ trainer' = [trainer EXCEPT !.pc = "done"]
  /\ UNCHANGED notTrainer

\* run_scaled_experiment after the loop: the best model is loaded for the
\* final comprehensive validation
LoadBestModel ==
  /\ trainer.pc = "loop_exit"
  /\ trainer.cls = "ScaledTrainer"
  /\ trainer' = ScaledTrainer_load_checkpoint(trainer, best_model)
  /\ UNCHANGED notTrainer

TrainerNext ==
  \/ TrainStep
  \/ Logging
  \/ Validation
  \/ PeriodicCheckpoint
  \/ TrainResults
  \/ LoadBestModel

SpecTrainer == TrainerInit /\ [][TrainerNext]_vars

\* C15: every checkpoint file written by a trainer holds the model state,
\* the optimizer state, the scheduler state and the configuration of the run
C15_CheckpointContents ==
  \A path \in DOMAIN trainer.files :
    LET checkpoint == trainer.files[path]
    IN  /\ {"model_state_dict", "optimizer_state_dict", "scheduler_state_dict", "config"}
             \subseteq DOMAIN checkpoint
        /\ checkpoint.config = trainer.config

(***************************************************************************)
(* The enhanced graphs as objects with the attributes their methods set:   *)
(* last_ib_loss (EnhancedAdaptiveUniformV2.adaptive_rate) and last_kl_loss *)
(* (score_entropy_with_kl).  An attribute is <<>> while it does not exist  *)
(* and <<value>> once it was set.  The outputs of the networks and of the  *)
(* base score entropy are inputs of the calls.                             *)
(***************************************************************************)
\* kl_regularization_weight: off, and the default 0.01
KLWeights == {Zero, Rat(1, 100)}

\* info_loss of InformationBottleneck.forward
IBLosses == {Rat(1, 2), Rat(-1, 4)}

\* super().score_entropy(...) and compute_kl_from_uniform(trans_probs), reduced to a number
BaseLosses == {One}
KLFromUniform == {Rat(1, 10)}

\* t=None, the default of score_entropy_with_kl
NoneTime == [is_none |-> TRUE]

\* the entropy scores of the batch the calls are made on
LossScores == {CHOOSE scores \in EntropyScores : TRUE}

\* the graph objects: the enhanced classes with every flag combination
EnhancedObjects ==
  {[cls |-> g.cls, graph |-> g, use_information_bottleneck |-> ib,
    kl_regularization_weight |-> w, last_ib_loss |-> <<>>, last_kl_loss |-> <<>>,
    result |-> NoCall] :
      g \in {c \in GraphConfigs : c.cls \in Enhanced /\ c.sparsity_k = None},
      ib \in BOOLEAN, w \in KLWeights}

\* the attributes of a graph object that are set after construction
attributes(self) == [last_ib_loss |-> self.last_ib_loss, last_kl_loss |-> self.last_kl_loss]

\* the adaptive weight adaptive_rate computes
adaptive_rate_weight(self, t, max_t, schedule_value, combined_modulation) ==
  IF self.cls = "EnhancedAdaptiveUniformV2"
  THEN EnhancedAdaptiveUniformV2_weight(self.graph, t, max_t, schedule_value, combined_modulation)
  ELSE EnhancedAdaptiveUniform_weight(self.graph, t, max_t)

\* whether EnhancedAdaptiveUniformV2.adaptive_rate evaluates self.info_bottleneck
info_bottleneck_evaluated(self, adaptive_weight) ==
  /\ self.cls = "EnhancedAdaptiveUniformV2"
  /\ self.use_information_bottleneck
  /\ RLt(Zero, adaptive_weight)

\* the graph object after adaptive_rate: self.last_ib_loss = ib_loss
after_adaptive_rate(self, adaptive_weight, ib_loss) ==
  IF info_bottleneck_evaluated(self, adaptive_weight)
  THEN [self EXCEPT !.last_ib_loss = <<ib_loss>>]
  ELSE self

\* time_weight of score_entropy_with_kl
time_weight(t, max_t) ==
  IF t.is_tensor THEN RMul(t.v, t.v) ELSE RMul(RDiv(t.v, max_t), RDiv(t.v, max_t))

\* kl_loss of score_entropy_with_kl, as added to base_loss
regularization_loss(self, kl, t, max_t) ==
  LET kl_loss == RMul(RMul(kl, time_weight(t, max_t)), self.kl_regularization_weight)
  IN  IF self.cls = "EnhancedAdaptiveUniformV2" /\ self.last_ib_loss # <<>>
      THEN RAdd(kl_loss, RMul(Rat(1, 10), self.last_ib_loss[1]))
      ELSE kl_loss

ObjInit ==
  /\ obj \in EnhancedObjects
  /\ tm = AdaptiveTransitionMatrix_init(CHOOSE emb \in GraphEmbeddings : TRUE)
  /\ TransIdle
  /\ GraphIdle
  /\ DiagIdle
  /\ BatchIdle
  /\ TrainerIdle /\ PoolIdle /\ HierIdle

notObj == <<transVars, graphVars, diagVars, batchVars, trainer, pool, hier>>

\* a call of get_adaptive_weight(t, max_t)
ObjGetAdaptiveWeight ==
  /\ obj.result = NoCall
  /\ \E max_t \in MaxTimes : \E t \in Times(max_t), sv \in ScheduleValues :
       obj' = [obj EXCEPT !.result =
                 [op |-> "get_adaptive_weight", t |-> t, max_t |-> max_t, schedule_value |-> sv,
                  weight |-> IF obj.cls = "EnhancedAdaptiveUniformV2"
                             THEN V2_get_adaptive_weight(obj.graph, t, max_t, sv)
                             ELSE get_adaptive_weight(obj.graph, t, max_t)]]
  /\ UNCHANGED notObj

\* a call of adaptive_rate(x_t, t, max_t)
ObjAdaptiveRate ==
  /\ obj.result = NoCall
  /\ \E max_t \in MaxTimes : \E t \in Times(max_t), sv \in ScheduleValues, cm \in Modulations,
        scores \in LossScores, ib_loss \in IBLosses :
       LET adaptive_weight == adaptive_rate_weight(obj, t, max_t, sv, cm)
           self == after_adaptive_rate(obj, adaptive_weight, ib_loss)
       IN  obj' = [self EXCEPT !.result =
                     [op |-> "adaptive_rate", t |-> t, max_t |-> max_t, weight |-> adaptive_weight,
                      rate |-> weighted_rate(obj.graph, tm, adaptive_weight, scores, TRUE)]]
  /\ UNCHANGED notObj

\* a call of score_entropy_with_kl(score, sigma, x_t, x_0, t, max_t)
ScoreEntropyWithKL ==
  /\ obj.result = NoCall
  /\ \E max_t \in MaxTimes : \E t \in Times(max_t) \cup {NoneTime}, sv \in ScheduleValues,
        cm \in Modulations, base_loss \in BaseLosses, kl \in KLFromUniform, ib_loss \in IBLosses :
       IF RLt(Zero, obj.kl_regularization_weight) /\ t # NoneTime
       THEN LET adaptive_weight == adaptive_rate_weight(obj, t, max_t, sv, cm)
                evaluated == info_bottleneck_evaluated(obj, adaptive_weight)
                self == after_adaptive_rate(obj, adaptive_weight, ib_loss)
                kl_loss == regularization_loss(self, kl, t, max_t)
            IN  obj' = [self EXCEPT
                          !.last_kl_loss = <<kl_loss>>,
                          !.result = [op |-> "score_entropy_with_kl", t |-> t, max_t |-> max_t,
                                      base_loss |-> base_loss, kl |-> kl,
                                      ib_loss |-> IF evaluated THEN <<ib_loss>> ELSE <<>>,
                                      loss |-> RAdd(base_loss, kl_loss)]]
       ELSE obj' = [obj EXCEPT
                      !.result = [op |-> "score_entropy_with_kl", t |-> t, max_t |-> max_t,
                                  base_loss |-> base_loss, kl |-> <<>>,
                                  ib_loss |-> <<>>, loss |-> base_loss]]
  /\ UNCHANGED notObj

\* the call returns to its caller
ObjReturn ==
  /\ obj.result # NoCall
  /\ obj' = [obj EXCEPT !.result = NoCall]
  /\ UNCHANGED notObj

ObjNext == ObjGetAdaptiveWeight \/ ObjAdaptiveRate \/ ScoreEntropyWithKL \/ ObjReturn

SpecObj == ObjInit /\ [][ObjNext]_vars

\* get_adaptive_weight on a graph object as its constructor leaves it
fresh_adaptive_weight(self, t, max_t, schedule_value) ==
  LET fresh == [self EXCEPT !.last_ib_loss = <<>>, !.last_kl_loss = <<>>, !.result = NoCall]
  IN  IF fresh.cls = "EnhancedAdaptiveUniformV2"
      THEN V2_get_adaptive_weight(fresh.graph, t, max_t, schedule_value)
      ELSE get_adaptive_weight(fresh.graph, t, max_t)

\* C16: with use_information_bottleneck enabled on EnhancedAdaptiveUniformV2,
\* every call of score_entropy_with_kl evaluates the information bottleneck
\* and returns base loss + weighted KL term + 0.1 * the loss of that evaluation
C16_LossIncludesIB ==
  (/\ obj.cls = "EnhancedAdaptiveUniformV2"
   /\ obj.use_information_bottleneck
   /\ obj.result # NoCall
   /\ obj.result.op = "score_entropy_with_kl")
    => /\ obj.result.ib_loss # <<>>
       /\ obj.result.loss =
            RAdd(obj.result.base_loss,
                 RAdd(RMul(RMul(obj.result.kl, time_weight(obj.result.t, obj.result.max_t)),
                           obj.kl_regularization_weight),
                      RMul(Rat(1, 10), obj.result.ib_loss[1])))

\* C17: a call of get_adaptive_weight or of adaptive_rate on an enhanced
\* graph leaves every attribute of the graph object as it was, and
\* get_adaptive_weight returns what it returns on a newly constructed graph
\* with the same flags
C17_NoStateBetweenCalls ==
  /\ [][(/\ obj.cls \in Enhanced
         /\ obj.result = NoCall
         /\ obj'.result # NoCall
         /\ obj'.result.op \in {"get_adaptive_weight", "adaptive_rate"})
          => attributes(obj') = attributes(obj)]_vars
  /\ []((/\ obj.cls \in Enhanced
         /\ obj.result # NoCall
         /\ obj.result.op = "get_adaptive_weight")
          => obj.result.weight =
               fresh_adaptive_weight(obj, obj.result.t, obj.result.max_t, obj.result.schedule_value))

(***************************************************************************)
(* hierarchical_diffusion.py: HierarchicalDiffusion.__init__ and           *)
(* validate_hierarchical_convergence, called from                          *)
(* test_new_approaches.test_hierarchical_diffusion inside try / except.    *)
(* An attribute of a graph is looked up along the classes it inherits      *)
(* from; graph_lib.Graph is the abstract graph interface.                  *)
(***************************************************************************)
MaxLevels == 3

\* the graph interface of graph_lib.Graph: rates, transitions, sampling and
\* the score-entropy loss
Graph_methods ==
  {"rate", "transp_rate", "transition", "sample_transition", "reverse_rate",
   "sample_rate", "staggered_score", "sample_limit", "score_entropy"}

\* the methods each class defines
class_methods(cls) ==
  CASE cls = "Graph" -> Graph_methods
    [] cls = "AdaptiveUniform" ->
         {"rate", "adaptive_rate", "transp_rate", "sample_transition",
          "sample_transition_adaptive", "staggered_score", "transition", "sample_limit",
          "score_entropy"}
    [] cls = "EnhancedAdaptiveUniform" ->
         {"get_adaptive_weight", "adaptive_rate", "compute_kl_from_uniform",
          "score_entropy_with_kl", "get_convergence_metrics", "validate_convergence"}
    [] cls = "EnhancedAdaptiveUniformV2" ->
         {"get_adaptive_weight", "adaptive_rate", "score_entropy_with_kl",
          "compute_kl_from_uniform", "check_relaxed_convergence", "get_convergence_metrics"}

\* the classes an attribute is looked up in, in order
class_bases(cls) ==
  CASE cls = "Graph" -> <<"Graph">>
    [] cls = "AdaptiveUniform" -> <<"AdaptiveUniform", "Graph">>
    [] cls = "EnhancedAdaptiveUniform" -> <<"EnhancedAdaptiveUniform", "AdaptiveUniform", "Graph">>
    [] cls = "EnhancedAdaptiveUniformV2" -> <<"EnhancedAdaptiveUniformV2", "AdaptiveUniform", "Graph">>

hasattr(cls, name) ==
  \E k \in DOMAIN class_bases(cls) : name \in class_methods(class_bases(cls)[k])

Max(a, b) == IF a >= b THEN a ELSE b

\* compression_ratios: None gives the default [8, 4, 1]
CompressionRatios == {<<>>, <<8, 4, 1>>, <<4, 2, 1>>}
compression_ratios_of(arg) == IF arg = <<>> THEN <<8, 4, 1>> ELSE arg

\* HierarchicalDiffusion.__init__: one EnhancedAdaptiveUniformV2 per compression ratio
HierarchicalDiffusion_init(vocab_size, num_levels, compression_ratios) ==
  LET ratios == compression_ratios_of(compression_ratios)
      level_vocab_sizes == [l \in DOMAIN ratios |-> Max(16, vocab_size \div ratios[l])]
  IN  [vocab_size |-> vocab_size, num_levels |-> num_levels, compression_ratios |-> ratios,
       level_vocab_sizes |-> level_vocab_sizes,
       level_graphs |-> [l \in DOMAIN ratios |->
                           [cls |-> "EnhancedAdaptiveUniformV2", dim |-> level_vocab_sizes[l],
                            level |-> l - 1]]]

HierVocabSizes == {8, 16, 100, 256}
NumSteps == {20, 50}

HierInit ==
  /\ \E vocab_size \in HierVocabSizes, num_levels \in 1 .. MaxLevels, ratios \in CompressionRatios :
       hier = [phase |-> "constructed",
               self |-> HierarchicalDiffusion_init(vocab_size, num_levels, ratios)]
  /\ tm = AdaptiveTransitionMatrix_init(CHOOSE emb \in GraphEmbeddings : TRUE)
  /\ TransIdle
  /\ GraphIdle
  /\ DiagIdle
  /\ BatchIdle
  /\ TrainerIdle /\ ObjIdle /\ PoolIdle

notHier == <<transVars, graphVars, diagVars, batchVars, trainer, obj, pool>>

\* the call validate_hierarchical_convergence(num_steps, device): results = {}
ValidateHierarchicalConvergence ==
  /\ hier.phase = "constructed"
  /\ \E num_steps \in NumSteps :
       hier' = [phase |-> "loop", self |-> hier.self, num_steps |-> num_steps,
                level |-> 0, results |-> <<>>, exception |-> NoException]
  /\ UNCHANGED notHier

\* one pass of "for level in range(self.num_levels)", or the return after the last one
ValidateLevel ==
  /\ hier.phase = "loop"
  /\ IF hier.level >= hier.self.num_levels
     THEN hier' = [hier EXCEPT !.phase = "returned"]
     ELSE IF hier.level + 1 \notin DOMAIN hier.self.level_graphs
     THEN hier' = [hier EXCEPT !.phase = "raised", !.exception = [type |-> "IndexError", args |-> <<>>]]
     ELSE LET level_graph == hier.self.level_graphs[hier.level + 1]
          IN  IF ~hasattr(level_graph.cls, "validate_convergence")
              THEN hier' = [hier EXCEPT !.phase = "raised", !.exception = [type |-> "AttributeError", args |-> <<"validate_convergence">>]]
              ELSE hier' = [hier EXCEPT
                              !.results = dict_set(@, <<"level", hier.level>>,
                                            [graph |-> level_graph, num_steps |-> hier.num_steps,
                                             vocab_size |-> hier.self.level_vocab_sizes[hier.level + 1]]),
                              !.level = @ + 1]
  /\ UNCHANGED notHier

\* test_hierarchical_diffusion: except Exception as e: print the failure
TestExcept ==
  /\ hier.phase = "raised"
  /\ hier' = [hier EXCEPT !.phase = "test_failed"]
  /\ UNCHANGED notHier

HierNext == ValidateHierarchicalConvergence \/ ValidateLevel \/ TestExcept

SpecHier == HierInit /\ [][HierNext]_vars

\* C19: validate_hierarchical_convergence does not raise, and what it
\* returns has exactly the keys level_0 .. level_(num_levels-1), the entry
\* of level k made from the graph of level k
C19_HierarchicalValidation ==
  /\ hier.phase \notin {"raised", "test_failed"}
  /\ hier.phase = "returned" =>
       /\ DOMAIN hier.results = {<<"level", k>> : k \in 0 .. (hier.self.num_levels - 1)}
       /\ \A k \in 0 .. (hier.self.num_levels - 1) :
            hier.results[<<"level", k>>].graph = hier.self.level_graphs[k + 1]

(***************************************************************************)
(* run_parallel_scaled_experiments.py: main, run_parallel_experiments and  *)
(* run_single_experiment.  The pool has num_gpus worker processes; a free  *)
(* worker takes the next task and runs its subprocess; subprocesses end in *)
(* any order.  launched is the list of subprocess.run calls made.          *)
(***************************************************************************)
MaxGpus == 2

\* --experiments: at least one name (nargs='+'), names 1 .. MaxExperiments
ExperimentLists ==
  UNION {{e \in [1 .. n -> 1 .. MaxExperiments] : \A i, j \in 1 .. n : e[i] = e[j] => i = j} :
           n \in 1 .. MaxExperiments}

\* how a subprocess.run call ends: the return code of the child, or an exception
SubprocessOutcomes ==
  {[returncode |-> 0, exception |-> NoException],
   [returncode |-> 1, exception |-> NoException],
   [returncode |-> None, exception |-> [type |-> "OSError", args |-> <<"cannot allocate memory">>]]}

\* tasks.append((gpu_id, exp_name, ...)) for i, exp_name in enumerate(experiments)
tasks_of(experiments, num_gpus) ==
  [k \in DOMAIN experiments |-> [gpu_id |-> (k - 1) % num_gpus, experiment |-> experiments[k]]]

\* the command line and environment of the subprocess of a task
subprocess_of(task) ==
  [experiment |-> task.experiment, device |-> <<"cuda", task.gpu_id>>,
   CUDA_VISIBLE_DEVICES |-> task.gpu_id]

\* what run_single_experiment returns (elapsed_time, stdout and stderr left out)
run_single_experiment(task, outcome) ==
  IF outcome.exception # NoException
  THEN [experiment |-> task.experiment, gpu_id |-> task.gpu_id, status |-> "error",
        error |-> str(outcome.exception)]
  ELSE IF outcome.returncode = 0
  THEN [experiment |-> task.experiment, gpu_id |-> task.gpu_id, status |-> "success"]
  ELSE [experiment |-> task.experiment, gpu_id |-> task.gpu_id, status |-> "failed",
        return_code |-> outcome.returncode]

\* the results in the order in which the subprocesses ended
results_as_completed(tasks, done, finished) ==
  [k \in DOMAIN finished |-> done[finished[k]]]

\* pool.starmap(run_single_experiment, tasks): the results in the order of tasks
starmap(tasks, done, finished) ==
  [k \in DOMAIN tasks |-> done[k]]

\* summary['summary'] of main
summary_of(results) ==
  LET successful == {k \in DOMAIN results : results[k].status = "success"}
      failed == {k \in DOMAIN results : results[k].status # "success"}
  IN  [total |-> Len(results), successful |-> Cardinality(successful),
       failed |-> Cardinality(failed)]

\* main after the arguments are parsed and num_gpus is capped by the GPUs
\* of the host; the host has at least one GPU
PoolInit ==
  /\ \E experiments \in ExperimentLists, num_gpus \in 1 .. MaxGpus :
       pool = [phase |-> "main", experiments |-> experiments, num_gpus |-> num_gpus]
  /\ tm = AdaptiveTransitionMatrix_init(CHOOSE emb \in GraphEmbeddings : TRUE)
  /\ TransIdle
  /\ GraphIdle
  /\ DiagIdle
  /\ BatchIdle
  /\ TrainerIdle /\ ObjIdle /\ HierIdle

notPool == <<transVars, graphVars, diagVars, batchVars, trainer, obj, hier>>

\* run_parallel_experiments: the pool is created and the tasks are prepared
RunParallelExperiments ==
  /\ pool.phase = "main"
  /\ pool' = [phase |-> "starmap", experiments |-> pool.experiments, num_gpus |-> pool.num_gpus,
              tasks |-> tasks_of(pool.experiments, pool.num_gpus),
              next |-> 1, running |-> {}, launched |-> <<>>,
              outcome |-> <<>>, done |-> <<>>, finished |-> <<>>]
  /\ UNCHANGED notPool

\* a free worker takes the next task: run_single_experiment up to subprocess.run
WorkerTakesTask ==
  /\ pool.phase = "starmap"
  /\ pool.next \in DOMAIN pool.tasks
  /\ Cardinality(pool.running) < pool.num_gpus
  /\ pool' = [pool EXCEPT !.running = @ \cup {pool.next},
                          !.launched = Append(@, [task |-> pool.next,
                                                  subprocess |-> subprocess_of(pool.tasks[pool.next])]),
                          !.next = @ + 1]
  /\ UNCHANGED notPool

\* the subprocess of a running task ends; run_single_experiment returns its dict
SubprocessEnds ==
  /\ pool.phase = "starmap"
  /\ \E k \in pool.running, outcome \in SubprocessOutcomes :
       pool' = [pool EXCEPT !.running = @ \ {k},
                            !.outcome = dict_set(@, k, outcome),
                            !.done = dict_set(@, k, run_single_experiment(pool.tasks[k], outcome)),
                            !.finished = Append(@, k)]
  /\ UNCHANGED notPool

\* every task is done: starmap returns and so does run_parallel_experiments
StarmapReturns ==
  /\ pool.phase = "starmap"
  /\ DOMAIN pool.done = DOMAIN pool.tasks
  /\ pool' = [phase |-> "returned", experiments |-> pool.experiments, num_gpus |-> pool.num_gpus,
              tasks |-> pool.tasks, launched |-> pool.launched, outcome |-> pool.outcome,
              finished |-> pool.finished,
              results |-> starmap(pool.tasks, pool.done, pool.finished)]
  /\ UNCHANGED notPool

\* main counts the results and writes the summary
Summary ==
  /\ pool.phase = "returned"
  /\ pool' = [pool EXCEPT !.phase = "summary"] @@ [summary |-> summary_of(pool.results)]
  /\ UNCHANGED notPool

PoolNext ==
  \/ RunParallelExperiments
  \/ WorkerTakesTask
  \/ SubprocessEnds
  \/ StarmapReturns
  \/ Summary

SpecPool == PoolInit /\ [][PoolNext]_vars

PoolReturned == pool.phase \in {"returned", "summary"}

ZeroWeightRate ==
  /\ call # NoCall
  /\ call.op = "adaptive_rate"
  /\ graph.cls \in Enhanced
  /\ call.weight = Zero

\* C20: when the adaptive weight is exactly 0, adaptive_rate of both
\* enhanced graphs returns the pure uniform generator at every position,
\* off-diagonal entries 1/V and diagonal entries -(V-1)/V, whatever the
\* entropy scores and the parameters of the transition matrix are
C20_PureUniformAtZeroWeight ==
  ZeroWeightRate =>
    \A p \in Positions : \A i, j \in Tokens :
      call.rate[p][i][j] = IF i = j THEN Rat(-(Dim - 1), Dim) ELSE Rat(1, Dim)

\* the V2 graph at t = max_t with a trained rate_scale and a sparse transition matrix
C20_Witness ==
  /\ ZeroWeightRate
  /\ graph.cls = "EnhancedAdaptiveUniformV2"
  /\ graph.rate_scale # One
  /\ graph.sparsity_k # None
  /\ call.rate[<<1, 1>>][0][0] = Rat(-(Dim - 1), Dim)

(***************************************************************************)
(* The training loop of AEGUDTrainer.train and of run_scaled_experiment.   *)
(***************************************************************************)
\* min(num_steps, num_epochs * len(train_loader))
LoopTotal ==
  LET batches == trainer.config.num_epochs * trainer.config.batches_per_epoch
  IN  IF trainer.config.num_steps < batches THEN trainer.config.num_steps ELSE batches

\* the loop body is being executed
Training == trainer.pc \in {"train_step", "logging", "validation", "checkpoint"}

\* the loop was left: by its breaks, by exhausting the epochs, or by the
\* exception raised inside its body
LoopStopped ==
  \/ trainer.pc = "loop_exit"
  \/ trainer.pc = "raised" /\ trainer.exception = "UnboundLocalError"

\* C21: during training the step counter never exceeds num_steps, and when
\* the loop has stopped the counter is min(num_steps, num_epochs * len(loader))
C21_StepCounter ==
  /\ (Training \/ LoopStopped) => trainer.step <= trainer.config.num_steps
  /\ LoopStopped => trainer.step = LoopTotal

\* C21: a train_step raises the counter by exactly one and no other step of
\* the loop body changes it
C21_CounterSteps ==
  [][Training => IF trainer.pc = "train_step"
                 THEN trainer'.step = trainer.step + 1
                 ELSE trainer'.step = trainer.step]_vars

\* the minimum of the validation losses computed so far, infinity before the first
MinValLoss ==
  IF trainer.val_loss = <<>> THEN Inf
  ELSE CHOOSE l \in {trainer.val_loss[i] : i \in DOMAIN trainer.val_loss} :
         \A i \in DOMAIN trainer.val_loss : l <= trainer.val_loss[i]

\* the step of the first validation that reached the minimum
BestStep ==
  LET first == CHOOSE i \in DOMAIN trainer.val_loss :
                 /\ trainer.val_loss[i] = MinValLoss
                 /\ \A j \in 1 .. (i - 1) : trainer.val_loss[j] > MinValLoss
  IN  trainer.val_steps[first]

\* the step stored in a checkpoint (global_step in AEGUDTrainer, step in ScaledTrainer)
StepOf(checkpoint) ==
  IF "global_step" \in DOMAIN checkpoint THEN checkpoint.global_step ELSE checkpoint.step

\* best_model.pt holds the state the model had at the step of the lowest validation loss
BestModelHoldsBestStep ==
  trainer.val_loss # <<>> =>
    /\ best_model \in DOMAIN trainer.files
    /\ StepOf(trainer.files[best_model]) = BestStep
    /\ trainer.files[best_model].model_state_dict = BestStep

\* this step writes best_model.pt
BestModelWritten ==
  /\ best_model \in DOMAIN trainer'.files
  /\ best_model \in DOMAIN trainer.files => trainer'.files[best_model] # trainer.files[best_model]

\* this step is a validation whose loss is strictly lower than the previous best
ImprovingValidation ==
  /\ Len(trainer'.val_loss) = Len(trainer.val_loss) + 1
  /\ trainer'.val_loss[Len(trainer'.val_loss)] < trainer.best_val_loss

\* C22: best_val_loss never increases and is the minimum of the validation
\* losses computed so far (infinity before the first); best_model.pt is written
\* exactly at the validations with a strictly lower loss, and holds the state
\* of the step with the lowest validation loss
C22_BestValLoss ==
  /\ [](trainer.best_val_loss = MinValLoss /\ BestModelHoldsBestStep)
  /\ [][/\ trainer'.best_val_loss <= trainer.best_val_loss
        /\ BestModelWritten <=> ImprovingValidation]_vars

\* two validations, the second one better: best_model.pt holds the second step
C22_Witness ==
  /\ Len(trainer.val_loss) = 2
  /\ trainer.val_loss[2] < trainer.val_loss[1]
  /\ StepOf(trainer.files[best_model]) = trainer.val_steps[2]

\* C26: when run_scaled_experiment loads best_model.pt after the training
\* loop, the file was saved earlier in the run, and the load does not raise
C26_BestModelSavedBeforeLoad ==
  trainer.cls = "ScaledTrainer" =>
    /\ trainer.pc = "loop_exit" => best_model \in DOMAIN trainer.files
    /\ trainer.exception # "FileNotFoundError"

\* C29: when run_scaled_experiment saves a periodic checkpoint, avg_loss was
\* bound at an earlier logging step, and reading it does not raise
C29_TrainLossDefined ==
  trainer.cls = "ScaledTrainer" =>
    /\ (trainer.pc = "checkpoint" /\ trainer.step % trainer.config.checkpoint_every = 0)
         => trainer.avg_loss # <<>>
    /\ trainer.exception # "UnboundLocalError"

(***************************************************************************)
(* The information-bottleneck term of score_entropy_with_kl.               *)
(***************************************************************************)
\* what a score_entropy_with_kl call added to base loss + weighted KL term
ib_term_added(self) ==
  RSub(self.result.loss,
       RAdd(self.result.base_loss,
            RMul(RMul(self.result.kl, time_weight(self.result.t, self.result.max_t)),
                 self.kl_regularization_weight)))

\* C27: on EnhancedAdaptiveUniformV2 with the information bottleneck enabled,
\* whatever a score_entropy_with_kl call adds as information-bottleneck loss
\* is 0.1 * the loss the bottleneck computed during that same call
C27_IBLossOfSameCall ==
  (/\ obj.cls = "EnhancedAdaptiveUniformV2"
   /\ obj.use_information_bottleneck
   /\ obj.result # NoCall
   /\ obj.result.op = "score_entropy_with_kl"
   /\ obj.result.kl # <<>>
   /\ ib_term_added(obj) # Zero)
    => /\ obj.result.ib_loss # <<>>
       /\ ib_term_added(obj) = RMul(Rat(1, 10), obj.result.ib_loss[1])

(***************************************************************************)
(* The GPUs of the experiments that run_parallel_experiments runs at once. *)
(***************************************************************************)
\* C28: no two experiments that are running at the same time were assigned
\* the same GPU id
C28_OneExperimentPerGpu ==
  pool.phase = "starmap" =>
    \A j, k \in pool.running :
      j # k => pool.tasks[j].gpu_id # pool.tasks[k].gpu_id

(***************************************************************************)
(* The vocabularies of the levels of HierarchicalDiffusion.                *)
(***************************************************************************)
\* the compression ratios do not increase from level to level and end in 1
NonIncreasingToOne(ratios) ==
  /\ ratios # <<>>
  /\ ratios[Len(ratios)] = 1
  /\ \A l \in 1 .. (Len(ratios) - 1) : ratios[l] >= ratios[l + 1]

\* C25: the vocabulary of each level is max(16, vocab_size // ratio); for
\* non-increasing ratios ending in 1 the sizes do not decrease from the
\* coarsest to the finest level, none exceeds vocab_size and the finest one
\* equals vocab_size
C25_LevelVocabSizes ==
  hier # NoHier =>
    LET self == hier.self
        sizes == self.level_vocab_sizes
        ratios == self.compression_ratios
    IN  /\ Len(sizes) = Len(ratios)
        /\ \A l \in DOMAIN ratios : sizes[l] = Max(16, self.vocab_size \div ratios[l])
        /\ NonIncreasingToOne(ratios) =>
             /\ \A l \in 1 .. (Len(sizes) - 1) : sizes[l] <= sizes[l + 1]
             /\ \A l \in DOMAIN sizes : sizes[l] <= self.vocab_size
             /\ sizes[Len(sizes)] = self.vocab_size

(***************************************************************************)
(* HierarchicalDiffusion.encode_to_level, decode_from_level and            *)
(* hierarchical_diffusion_step on one token position.  The argmax of a     *)
(* level network and a random token are any token of the output            *)
(* vocabulary (its first and its last token here); nn.Embedding raises     *)
(* IndexError on a token outside its table.  handed is the set of tokens   *)
(* given to the encoders, decoders and graphs so far.                      *)
(***************************************************************************)
token_choices(size) == {0, size - 1}

\* t of the diffusion step: 0 (every noise scale is 0) and 0.5 (all positive)
StepTimes == {Zero, Rat(1, 2)}

\* one token given to a component with a vocabulary of the given size
hand(handed, component, index, size, token) ==
  handed \cup {[component |-> component, index |-> index, size |-> size, token |-> token]}

RECURSIVE encode_to_level(_, _, _, _, _)
\* encode_to_level from current_level down to target_level: the set of outcomes
encode_to_level(self, tokens, current_level, target_level, handed) ==
  IF current_level > target_level
  THEN LET size == self.level_vocab_sizes[current_level + 1]
           given == hand(handed, "encoder", current_level - 1, size, tokens)
       IN  IF tokens \notin 0 .. (size - 1)
           THEN {[raised |-> TRUE, tokens |-> tokens, handed |-> given]}
           ELSE UNION {encode_to_level(self, argmax, current_level - 1, target_level, given) :
                         argmax \in token_choices(self.level_vocab_sizes[current_level])}
  ELSE {[raised |-> FALSE, tokens |-> tokens, handed |-> handed]}

RECURSIVE decode_from_level(_, _, _, _)
\* decode_from_level from current_level up to the finest level: the set of outcomes
decode_from_level(self, tokens, current_level, handed) ==
  IF current_level < self.num_levels - 1
  THEN LET size == self.level_vocab_sizes[current_level + 1]
           given == hand(handed, "decoder", current_level, size, tokens)
       IN  IF tokens \notin 0 .. (size - 1)
           THEN {[raised |-> TRUE, tokens |-> tokens, handed |-> given]}
           ELSE UNION {decode_from_level(self, argmax, current_level + 1, given) :
                         argmax \in token_choices(self.level_vocab_sizes[current_level + 2])}
  ELSE {[raised |-> FALSE, tokens |-> tokens, handed |-> handed]}

\* graph.sample_transition(level_tokens, sigma): the token moves to a random
\* token of the graph with chance 1 - exp(-sigma), which is 0 at t = 0
level_sample_transition(level_graph, level_tokens, t) ==
  {level_tokens} \cup (IF RLt(Zero, t) THEN token_choices(level_graph.dim) ELSE {})

\* torch.rand_like(...) < 1 - exp(-noise_scales[level])
use_coarse_choices(t) == IF RLt(Zero, t) THEN BOOLEAN ELSE {FALSE}

\* a constructed HierarchicalDiffusion, x_0 = torch.randint(0, vocab_size, ...)
\* and the call hierarchical_diffusion_step(x_0, t, noise_scales)
HierStepInit ==
  /\ \E vocab_size \in HierVocabSizes, num_levels \in 1 .. MaxLevels, ratios \in CompressionRatios,
        t \in StepTimes : \E x_0 \in token_choices(vocab_size) :
       /\ num_levels <= Len(compression_ratios_of(ratios))
       /\ hier = [phase |-> "diffusion_levels",
                  self |-> HierarchicalDiffusion_init(vocab_size, num_levels, ratios),
                  x_0 |-> x_0, t |-> t, level |-> 0, level_outputs |-> <<>>,
                  combined_tokens |-> <<>>, handed |-> {}, exception |-> NoException]
  /\ tm = AdaptiveTransitionMatrix_init(CHOOSE emb \in GraphEmbeddings : TRUE)
  /\ TransIdle
  /\ GraphIdle
  /\ DiagIdle
  /\ BatchIdle
  /\ TrainerIdle /\ ObjIdle /\ PoolIdle

\* one pass of the first loop: encode x_0 to the level, diffuse it with the
\* graph of the level; after the last pass combined_tokens = level_outputs[0]
DiffusionLevel ==
  /\ hier.phase = "diffusion_levels"
  /\ IF hier.level >= hier.self.num_levels
     THEN hier' = [hier EXCEPT !.phase = "combine", !.level = 1,
                               !.combined_tokens = <<hier.level_outputs[1]>>]
     ELSE \E encoded \in (IF hier.level < hier.self.num_levels - 1
                          THEN encode_to_level(hier.self, hier.x_0, hier.self.num_levels - 1,
                                               hier.level, hier.handed)
                          ELSE {[raised |-> FALSE, tokens |-> hier.x_0, handed |-> hier.handed]}) :
            IF encoded.raised
            THEN hier' = [hier EXCEPT !.phase = "raised", !.handed = encoded.handed,
                                      !.exception = [type |-> "IndexError", args |-> <<>>]]
            ELSE LET level_graph == hier.self.level_graphs[hier.level + 1]
                 IN  \E level_x_t \in level_sample_transition(level_graph, encoded.tokens, hier.t) :
                       hier' = [hier EXCEPT
                                  !.handed = hand(encoded.handed, "graph", hier.level,
                                                  level_graph.dim, encoded.tokens),
                                  !.level_outputs = Append(@, level_x_t),
                                  !.level = @ + 1]
  /\ UNCHANGED notHier

\* one pass of the second loop: decode the combined tokens, encode the
\* tokens of the level, blend; after the last pass the step returns
CombineLevel ==
  /\ hier.phase = "combine"
  /\ IF hier.level >= hier.self.num_levels
     THEN hier' = [hier EXCEPT !.phase = "step_returned"]
     ELSE \E decoded_coarse \in decode_from_level(hier.self, hier.combined_tokens[1],
                                                  hier.level - 1, hier.handed) :
            IF decoded_coarse.raised
            THEN hier' = [hier EXCEPT !.phase = "raised", !.handed = decoded_coarse.handed,
                                      !.exception = [type |-> "IndexError", args |-> <<>>]]
            ELSE \E current_tokens \in
                      (IF hier.level < hier.self.num_levels - 1
                       THEN encode_to_level(hier.self, hier.level_outputs[hier.level + 1],
                                            hier.self.num_levels - 1, hier.level - 1,
                                            decoded_coarse.handed)
                       ELSE {[raised |-> FALSE, tokens |-> hier.level_outputs[hier.level + 1],
                              handed |-> decoded_coarse.handed]}) :
                   IF current_tokens.raised
                   THEN hier' = [hier EXCEPT !.phase = "raised", !.handed = current_tokens.handed,
                                             !.exception = [type |-> "IndexError", args |-> <<>>]]
                   ELSE \E use_coarse \in use_coarse_choices(hier.t) :
                          hier' = [hier EXCEPT
                                     !.handed = current_tokens.handed,
                                     !.combined_tokens = <<IF use_coarse THEN decoded_coarse.tokens
                                                           ELSE current_tokens.tokens>>,
                                     !.level = @ + 1]
  /\ UNCHANGED notHier

HierStepNext == DiffusionLevel \/ CombineLevel \/ TestExcept

SpecHierStep == HierStepInit /\ [][HierStepNext]_vars

\* C24: every token given to a level encoder, decoder or graph lies in the
\* vocabulary of that component, no embedding lookup raises, and the step
\* returns a finest-level token in [0, vocab_size)
C24_TokensInVocabulary ==
  hier.phase \in {"diffusion_levels", "combine", "step_returned", "raised", "test_failed"} =>
    /\ \A h \in hier.handed : h.token \in 0 .. (h.size - 1)
    /\ hier.phase \notin {"raised", "test_failed"}
    /\ hier.phase = "step_returned" =>
         hier.combined_tokens[1] \in 0 .. (hier.self.vocab_size - 1)

(***************************************************************************)
(* The loops of EnhancedAdaptiveUniform.validate_convergence and of        *)
(* DiffusionValidator.test_forward_diffusion_convergence.  A token         *)
(* sequence carries the time up to which it was noised; measured is the    *)
(* sequence whose metrics the last pass appended, and an entry of the      *)
(* trajectory holds the time of the pass and the time up to which the      *)
(* sequence measured in that pass was noised.  The progress line is        *)
(* printed when step % (num_steps // 10) == 0.                             *)
(***************************************************************************)
ValidateSteps == {1, 9, 10, 12}

\* x_0 = torch.randint(0, vocab_size, ...) at the head of the loop
ValidateInit ==
  /\ \E kind \in {"validate_convergence", "DiffusionValidator"}, num_steps \in ValidateSteps,
        tokens \in [Positions -> Tokens] :
       diag = [kind |-> kind, num_steps |-> num_steps, step |-> 0,
               x_0 |-> [tokens |-> tokens, noised_to |-> Zero], measured |-> <<>>,
               trajectory |-> <<>>, status |-> "running", converged |-> FALSE,
               exception |-> NoException]
  /\ tm = AdaptiveTransitionMatrix_init(CHOOSE emb \in GraphEmbeddings : TRUE)
  /\ TransIdle
  /\ GraphIdle
  /\ BatchIdle
  /\ LateIdle

\* the end of a pass: the metrics are appended, then the progress line
after_pass(self, x, t) ==
  LET appended == [self EXCEPT !.measured = <<x>>,
                               !.trajectory = Append(@, [t |-> t, noised_to |-> x.noised_to])]
  IN  IF self.num_steps \div 10 = 0
      THEN [appended EXCEPT !.status = "raised",
                            !.exception = [type |-> "ZeroDivisionError", args |-> <<>>]]
      ELSE [appended EXCEPT !.step = @ + 1]

\* one pass of the loop of validate_convergence:
\* metrics = self.get_convergence_metrics(x_0, t, max_t=1.0)
ValidateConvergenceStep ==
  /\ diag.kind = "validate_convergence"
  /\ diag.status = "running"
  /\ diag.step <= diag.num_steps
  /\ diag' = after_pass(diag, diag.x_0, Rat(diag.step, diag.num_steps))
  /\ UNCHANGED notDiag

\* one pass of the loop of test_forward_diffusion_convergence: x_t is x_0 at
\* step 0 and graph.sample_transition(x_t, sigma) afterwards, where every
\* position keeps its token or moves to any token
ForwardDiffusionStep ==
  /\ diag.kind = "DiffusionValidator"
  /\ diag.status = "running"
  /\ diag.step <= diag.num_steps
  /\ LET t == Rat(diag.step, diag.num_steps)
     IN  IF diag.step = 0
         THEN diag' = after_pass(diag, diag.x_0, t)
         ELSE \E tokens \in [Positions -> Tokens] :
                diag' = after_pass(diag, [tokens |-> tokens, noised_to |-> t], t)
  /\ UNCHANGED notDiag

\* after the loop: the verdict from the metrics of the last pass
ValidateReturn ==
  /\ diag.kind \in {"validate_convergence", "DiffusionValidator"}
  /\ diag.status = "running"
  /\ diag.step = diag.num_steps + 1
  /\ LET x_flat == [p \in 1 .. SeqLen |-> diag.measured[1].tokens[<<1, p>>]]
         stat == chi2_stat(Dim, x_flat)
         last == IF diag.kind = "DiffusionValidator"
                 THEN [entropy |-> compute_entropy(Dim, x_flat),
                       kl |-> compute_kl_from_uniform(Dim, x_flat),
                       chi2 |-> chi2_sf(stat, Dim - 1)]
                 ELSE [entropy |-> compute_entropy(Dim, x_flat),
                       kl |-> EnhancedMetrics_kl_div(Dim, x_flat)]
     IN  diag' = [diag EXCEPT !.status = "done", !.converged = Verdict(diag.kind, <<last>>)]
  /\ UNCHANGED notDiag

ValidateNext == ValidateConvergenceStep \/ ForwardDiffusionStep \/ ValidateReturn

SpecValidate == ValidateInit /\ [][ValidateNext]_vars

\* C23: in validate_convergence the sequence measured at step k is the
\* initial sequence at k = 0 and a sequence noised up to t = k / num_steps
\* at every k > 0, and a returned trajectory has num_steps + 1 entries
C23_MeasuredSequenceIsNoised ==
  diag.kind = "validate_convergence" =>
    /\ \A k \in DOMAIN diag.trajectory :
         /\ diag.trajectory[k].t = Rat(k - 1, diag.num_steps)
         /\ diag.trajectory[k].noised_to = diag.trajectory[k].t
    /\ diag.status = "done" => Len(diag.trajectory) = diag.num_steps + 1

\* C30: for every num_steps >= 1 neither loop raises, and a run that ends
\* has a verdict
C30_ValidationCompletes ==
  diag.kind \in {"validate_convergence", "DiffusionValidator"} =>
    /\ diag.status # "raised"
    /\ diag.status = "done" => diag.converged \in BOOLEAN

====
